---- MODULE Spec2Model ----
(***************************************************************************)
(* Bank simulator: the ledger store, the rule propagators, the rule        *)
(* expansion, the worklist scheduler and the API handlers that trigger a   *)
(* resimulation (src/app/database.py, src/app/simulation.py,               *)
(* src/app/routes.py).                                                     *)
(*                                                                         *)
(* Amounts are the integer-valued floats of the source (sums of small      *)
(* integers are exact in binary floating point, so Float arithmetic is     *)
(* integer arithmetic here and |d| < 1e-9 is d = 0).  Timestamps are       *)
(* seconds since 2025-01-05T00:00:00, all naive wall-clock times, so that  *)
(* day 1 is 2025-01-06, the first day of the seeded window.                *)
(***************************************************************************)
EXTENDS Integers, Sequences, FiniteSets, TLC

\* ------------------------------------------------------------------
\* Bounds of the model
\* ------------------------------------------------------------------

\* largest account id create_account hands out in the model
MaxAccounts == 2

\* largest funding-rule id create_funding_rule hands out in the model
MaxRules == 2

\* number of days of the simulation window given to create_simulation
MaxDays == 2

\* number of committed state-changing API calls in one behaviour
MaxCalls == 5

\* number of propagate() calls the model follows within one simulate()
MaxSteps == 44

\* ------------------------------------------------------------------
\* Values of the program
\* ------------------------------------------------------------------

\* SQL NULL / Python None (the rule_id of a manual entry, a missing date)
Null == 0

\* seconds in a day (datetime.combine / date arithmetic)
SecondsPerDay == 86400

\* timedelta(minutes=30): the lag until a wire lands
FundingLag == 1800

RuleTypes == {"BACKUP_FUNDING", "TOPUP", "SWEEP_OUT"}

\* ------------------------------------------------------------------
\* Inputs the model draws requests from
\* ------------------------------------------------------------------

AccountIdInputs == 1..MaxAccounts

RuleIdInputs == 1..MaxRules

RuleTypeInputs == RuleTypes \cup {"OVERDRAFT"}

\* "09:00:00" and the malformed "9:00" (no seconds field)
TimeOfDayInputs == {<<9, 0, 0>>, <<9, 0>>}

CurrencyInputs == {"USD"}

\* (threshold, target_amount) pairs of a funding-rule request
LevelInputs == {<<0, 0>>, <<1, 2>>, <<2, 1>>}

AmountInputs == {-2, 2}

\* effective_time of a manual entry: 08:00 on each day of the window
EntryTimeInputs == {d * SecondsPerDay + 8 * 3600 : d \in 1..MaxDays}

\* description of a manual-entry request; "" stands for a missing one
DescriptionInputs == {""}

\* datetime.utcnow() at the time of a request
NowInputs == {SecondsPerDay + 12 * 3600}

\* (start_date, end_date) given to create_simulation: the whole window, or
\* neither date
WindowInputs == {<<SecondsPerDay, (MaxDays + 1) * SecondsPerDay - 1>>,
                 <<Null, Null>>}

\* ------------------------------------------------------------------
\* Ledger store: the balance_entries table as a bag of rows (the id column
\* is left out; rows are only ever summed, filtered and deleted by value)
\* ------------------------------------------------------------------

\* BalanceEntry(...)
BalanceEntry(account_id, amount, currency, description, effective_time, rule_id) ==
    [account_id |-> account_id, amount |-> amount, currency |-> currency,
     description |-> description, effective_time |-> effective_time,
     rule_id |-> rule_id]

EmptyLedger == [e \in {} |-> 0]

\* session.add(entry); session.flush()
AddEntry(ledger, e) ==
    IF e \in DOMAIN ledger
    THEN [ledger EXCEPT ![e] = @ + 1]
    ELSE [x \in DOMAIN ledger \cup {e} |-> IF x = e THEN 1 ELSE ledger[x]]

RECURSIVE AddEntries(_, _)
AddEntries(ledger, es) ==
    IF es = <<>> THEN ledger
    ELSE AddEntries(AddEntry(ledger, Head(es)), Tail(es))

\* the rows of the ledger that are in rows (the rows a query's filter keeps)
FilterEntries(ledger, rows) ==
    [e \in DOMAIN ledger \cap rows |-> ledger[e]]

RECURSIVE SumAmounts(_, _)
\* func.coalesce(func.sum(BalanceEntry.amount), 0.0) over the rows in S
SumAmounts(ledger, S) ==
    IF S = {} THEN 0
    ELSE LET e == CHOOSE x \in S : TRUE
         IN  e.amount * ledger[e] + SumAmounts(ledger, S \ {e})

\* get_balance without the filter on the currency
get_balance_AnyCurrency(ledger, account_id, timestamp, currency, rule_id) ==
    SumAmounts(ledger,
        {e \in DOMAIN ledger :
            /\ e.account_id = account_id
            /\ e.effective_time <= timestamp
            /\ (rule_id # Null => e.rule_id = rule_id)})

get_balance(ledger, account_id, timestamp, currency, rule_id) ==
    SumAmounts(ledger,
        {e \in DOMAIN ledger :
            /\ e.account_id = account_id
            /\ e.currency = currency
            /\ e.effective_time <= timestamp
            /\ (rule_id # Null => e.rule_id = rule_id)})

get_balance_at_timestamp(ledger, account_id, timestamp, currency, rule_id) ==
    SumAmounts(ledger,
        {e \in DOMAIN ledger :
            /\ e.account_id = account_id
            /\ e.currency = currency
            /\ e.effective_time = timestamp
            /\ (rule_id # Null => e.rule_id = rule_id)})

Min(a, b) == IF a <= b THEN a ELSE b

\* ------------------------------------------------------------------
\* Propagators
\* ------------------------------------------------------------------

\* a description text written by hand
Text(text) == [source |-> Null, target |-> Null, text |-> text]

\* f"{source_account_id} -> {target_account_id} <name>"
RuleDescription(source_account_id, target_account_id, name) ==
    [source |-> source_account_id, target |-> target_account_id, text |-> name]

ManualEntry(account_id, amount, currency, timestamp, description) ==
    [kind |-> "ManualEntry", account_id |-> account_id, amount |-> amount,
     rule_id |-> Null, target_account_id |-> Null, source_account_id |-> Null,
     timestamp |-> timestamp, currency |-> currency,
     threshold |-> Null, target_amount |-> Null,
     description |-> description, funding_timestamp |-> Null]

Topup(rule_id, target_account_id, source_account_id, timestamp, currency, threshold, target_amount) ==
    [kind |-> "Topup", account_id |-> Null, amount |-> Null,
     rule_id |-> rule_id,
     target_account_id |-> target_account_id,
     source_account_id |-> source_account_id,
     timestamp |-> timestamp, currency |-> currency,
     threshold |-> threshold, target_amount |-> target_amount,
     description |-> RuleDescription(source_account_id, target_account_id, "Topup"),
     funding_timestamp |-> timestamp + FundingLag]

SweepOut(rule_id, target_account_id, source_account_id, timestamp, currency, threshold, target_amount) ==
    [kind |-> "SweepOut", account_id |-> Null, amount |-> Null,
     rule_id |-> rule_id,
     target_account_id |-> target_account_id,
     source_account_id |-> source_account_id,
     timestamp |-> timestamp, currency |-> currency,
     threshold |-> threshold, target_amount |-> target_amount,
     description |-> RuleDescription(source_account_id, target_account_id,
                                     "Sweep Out"),
     funding_timestamp |-> timestamp + FundingLag]

\* listening_points() with a ManualEntry that listens on its own account at
\* its own timestamp
listening_points_ManualListens(p) ==
    IF p.kind = "Topup" THEN << <<p.target_account_id, p.timestamp>> >>
    ELSE IF p.kind = "SweepOut" THEN << <<p.source_account_id, p.timestamp>> >>
    ELSE << <<p.account_id, p.timestamp>> >>

\* listening_points() of each propagator: a sequence of <<account_id, timestamp>>
listening_points(p) ==
    IF p.kind = "Topup" THEN << <<p.target_account_id, p.timestamp>> >>
    ELSE IF p.kind = "SweepOut" THEN << <<p.source_account_id, p.timestamp>> >>
    ELSE << >>

\* ManualEntry.propagate: the rows it writes
ManualEntryPropagate(p, ledger) ==
    << BalanceEntry(p.account_id, p.amount, p.currency,
                    p.description, p.timestamp, Null) >>

\* balance_diff of a SweepOut whose reversal returns the whole shortfall below
\* the threshold, whatever was swept before
SweepOutDiff_ReturnsShortfall(p, ledger) ==
    LET source_balance ==
            get_balance(ledger, p.source_account_id, p.timestamp, p.currency, Null)
        prior_sweep_amount ==
            get_balance_at_timestamp(ledger, p.source_account_id,
                                     p.funding_timestamp, p.currency, p.rule_id)
    IN  IF source_balance > p.threshold
        THEN -(source_balance - p.target_amount + prior_sweep_amount)
        ELSE IF source_balance < p.threshold /\ prior_sweep_amount < 0
        THEN p.threshold - source_balance
        ELSE 0

\* balance_diff of a Topup whose unwind takes back the whole excess above the
\* threshold, whatever it contributed before
TopupDiff_TakesExcess(p, ledger) ==
    LET target_account_balance ==
            get_balance(ledger, p.target_account_id, p.timestamp, p.currency, Null)
        prior_topup_amount ==
            get_balance_at_timestamp(ledger, p.target_account_id,
                                     p.funding_timestamp, p.currency, p.rule_id)
    IN  IF target_account_balance > p.threshold
        THEN IF prior_topup_amount > 0
             THEN -(target_account_balance - p.threshold) ELSE 0
        ELSE IF target_account_balance < p.threshold
        THEN p.target_amount - target_account_balance - prior_topup_amount
        ELSE 0

\* balance_diff of a Topup that also tops up when the balance equals the
\* threshold
TopupDiff_TopsUpAtThreshold(p, ledger) ==
    LET target_account_balance ==
            get_balance(ledger, p.target_account_id, p.timestamp, p.currency, Null)
        prior_topup_amount ==
            get_balance_at_timestamp(ledger, p.target_account_id,
                                     p.funding_timestamp, p.currency, p.rule_id)
    IN  IF target_account_balance > p.threshold
        THEN -Min(prior_topup_amount, target_account_balance - p.threshold)
        ELSE p.target_amount - target_account_balance - prior_topup_amount

\* balance_diff of Topup.propagate
TopupDiff(p, ledger) ==
    LET target_account_balance ==
            get_balance(ledger, p.target_account_id, p.timestamp, p.currency, Null)
        prior_topup_amount ==
            get_balance_at_timestamp(ledger, p.target_account_id,
                                     p.funding_timestamp, p.currency, p.rule_id)
    IN  IF target_account_balance > p.threshold
        THEN -Min(prior_topup_amount, target_account_balance - p.threshold)
        ELSE IF target_account_balance < p.threshold
        THEN p.target_amount - target_account_balance - prior_topup_amount
        ELSE 0

\* Topup.propagate that credits the target and writes no debit on the source
TopupPropagate_NoDebit(p, ledger) ==
    LET balance_diff == TopupDiff(p, ledger)
    IN  IF balance_diff = 0 THEN << >>
        ELSE << BalanceEntry(p.target_account_id, balance_diff, p.currency,
                             p.description, p.funding_timestamp, p.rule_id) >>

\* Topup.propagate that credits the target at the firing time
TopupPropagate_CreditsAtFiring(p, ledger) ==
    LET balance_diff == TopupDiff(p, ledger)
    IN  IF balance_diff = 0 THEN << >>
        ELSE << BalanceEntry(p.source_account_id, -balance_diff, p.currency,
                             p.description, p.timestamp, p.rule_id),
                BalanceEntry(p.target_account_id, balance_diff, p.currency,
                             p.description, p.timestamp, p.rule_id) >>

\* Topup.propagate: the rows it writes
TopupPropagate(p, ledger) ==
    LET balance_diff == TopupDiff(p, ledger)
    IN  IF balance_diff = 0 THEN << >>
        ELSE << BalanceEntry(p.source_account_id, -balance_diff, p.currency,
                             p.description, p.timestamp, p.rule_id),
                BalanceEntry(p.target_account_id, balance_diff, p.currency,
                             p.description, p.funding_timestamp, p.rule_id) >>

\* balance_diff of a SweepOut that sweeps without regard to what it swept
\* before
SweepOutDiff_IgnoresPrior(p, ledger) ==
    LET source_balance ==
            get_balance(ledger, p.source_account_id, p.timestamp, p.currency, Null)
        prior_sweep_amount ==
            get_balance_at_timestamp(ledger, p.source_account_id,
                                     p.funding_timestamp, p.currency, p.rule_id)
    IN  IF source_balance > p.threshold
        THEN -(source_balance - p.target_amount)
        ELSE IF source_balance < p.threshold /\ prior_sweep_amount < 0
        THEN Min(-prior_sweep_amount, p.threshold - source_balance)
        ELSE 0

\* balance_diff of SweepOut.propagate
SweepOutDiff(p, ledger) ==
    LET source_balance ==
            get_balance(ledger, p.source_account_id, p.timestamp, p.currency, Null)
        prior_sweep_amount ==
            get_balance_at_timestamp(ledger, p.source_account_id,
                                     p.funding_timestamp, p.currency, p.rule_id)
    IN  IF source_balance > p.threshold
        THEN -(source_balance - p.target_amount + prior_sweep_amount)
        ELSE IF source_balance < p.threshold /\ prior_sweep_amount < 0
        THEN Min(-prior_sweep_amount, p.threshold - source_balance)
        ELSE 0

\* SweepOut.propagate that takes the money from the source at the firing time
SweepOutPropagate_DebitsAtFiring(p, ledger) ==
    LET balance_diff == SweepOutDiff(p, ledger)
    IN  IF balance_diff = 0 THEN << >>
        ELSE << BalanceEntry(p.source_account_id, balance_diff, p.currency,
                             p.description, p.timestamp, p.rule_id),
                BalanceEntry(p.target_account_id, -balance_diff, p.currency,
                             p.description, p.funding_timestamp, p.rule_id) >>

\* SweepOut.propagate: the rows it writes
SweepOutPropagate(p, ledger) ==
    LET balance_diff == SweepOutDiff(p, ledger)
    IN  IF balance_diff = 0 THEN << >>
        ELSE << BalanceEntry(p.source_account_id, balance_diff, p.currency,
                             p.description, p.funding_timestamp, p.rule_id),
                BalanceEntry(p.target_account_id, -balance_diff, p.currency,
                             p.description, p.funding_timestamp, p.rule_id) >>

\* propagator.propagate(session): the new entries, in the order returned
propagate(p, ledger) ==
    IF p.kind = "Topup" THEN TopupPropagate(p, ledger)
    ELSE IF p.kind = "SweepOut" THEN SweepOutPropagate(p, ledger)
    ELSE ManualEntryPropagate(p, ledger)

\* ------------------------------------------------------------------
\* Rule expansion and the scheduler (SimulationRunner)
\* ------------------------------------------------------------------

\* FundingRule row
FundingRule(id, rule_type, target_account_id, source_account_id, time_of_day, currency, threshold, target_amount) ==
    [id |-> id, rule_type |-> rule_type,
     target_account_id |-> target_account_id,
     source_account_id |-> source_account_id,
     time_of_day |-> time_of_day, currency |-> currency,
     threshold |-> threshold, target_amount |-> target_amount]

\* datetime.strptime(s, "%H:%M:%S") succeeds: three fields, each in range
\* (a time of day is the sequence of its numeric fields)
ValidTimeOfDay(tod) ==
    /\ Len(tod) = 3
    /\ tod[1] \in 0..23
    /\ tod[2] \in 0..59
    /\ tod[3] \in 0..59

\* datetime.strptime(...).time() as seconds after midnight
TimeOfDay(tod) == tod[1] * 3600 + tod[2] * 60 + tod[3]

\* datetime.date() of a timestamp, as a day number
DateOf(timestamp) == timestamp \div SecondsPerDay

\* datetime.combine that drops the time of day: midnight of the date
Combine_DateOnly(date, t) == date * SecondsPerDay

\* datetime.combine(date, t)
Combine(date, t) == date * SecondsPerDay + t

SetMax(S) == CHOOSE x \in S : \A y \in S : y <= x

SetMin(S) == CHOOSE x \in S : \A y \in S : x <= y

\* the id SQLite gives a new row of an INTEGER PRIMARY KEY table: one more
\* than the largest id in the table, 1 when the table is empty
NextId(ids) == IF ids = {} THEN 1 ELSE SetMax(ids) + 1

RECURSIVE RulesById(_)
\* session.query(FundingRule).all(): the rows in id order
RulesById(rules) ==
    IF rules = {} THEN << >>
    ELSE LET r == CHOOSE x \in rules : \A y \in rules : x.id <= y.id
         IN  <<r>> \o RulesById(rules \ {r})

NewRunner == [processing_queue |-> << >>, listeners |-> << >>]

RECURSIVE AddListeners(_, _, _)
AddListeners(listeners, points, propagator) ==
    IF points = << >> THEN listeners
    ELSE AddListeners(
            Append(listeners, <<Head(points)[1], Head(points)[2], propagator>>),
            Tail(points), propagator)

\* SimulationRunner.add_propagator; listeners is the dict flattened to a
\* sequence of <<account_id, timestamp, propagator>> in insertion order, so the
\* list of one account is the subsequence with that account_id
add_propagator(runner, propagator) ==
    [processing_queue |-> Append(runner.processing_queue, propagator),
     listeners |-> AddListeners(runner.listeners,
                                listening_points(propagator), propagator)]

\* the expansion of one rule on one date with the end of the window excluded
ExpandRule_EndExclusive(rule, current_date, start_datetime, end_datetime) ==
    LET timestamp == Combine(current_date, TimeOfDay(rule.time_of_day))
    IN  IF start_datetime <= timestamp /\ timestamp < end_datetime
        THEN IF rule.rule_type \in {"TOPUP", "BACKUP_FUNDING"}
             THEN << Topup(rule.id, rule.target_account_id,
                           rule.source_account_id, timestamp, rule.currency,
                           rule.threshold, rule.target_amount) >>
             ELSE IF rule.rule_type = "SWEEP_OUT"
             THEN << SweepOut(rule.id, rule.target_account_id,
                              rule.source_account_id, timestamp, rule.currency,
                              rule.threshold, rule.target_amount) >>
             ELSE << >>
        ELSE << >>

\* the propagator __init__ builds for one rule on one date, << >> if none
ExpandRule(rule, current_date, start_datetime, end_datetime) ==
    LET timestamp == Combine(current_date, TimeOfDay(rule.time_of_day))
    IN  IF start_datetime <= timestamp /\ timestamp <= end_datetime
        THEN IF rule.rule_type \in {"TOPUP", "BACKUP_FUNDING"}
             THEN << Topup(rule.id, rule.target_account_id,
                           rule.source_account_id, timestamp, rule.currency,
                           rule.threshold, rule.target_amount) >>
             ELSE IF rule.rule_type = "SWEEP_OUT"
             THEN << SweepOut(rule.id, rule.target_account_id,
                              rule.source_account_id, timestamp, rule.currency,
                              rule.threshold, rule.target_amount) >>
             ELSE << >>
        ELSE << >>

RECURSIVE ExpandDay(_, _, _, _, _)
\* the inner loop of __init__: every rule on current_date
ExpandDay(runner, rules, current_date, start_datetime, end_datetime) ==
    IF rules = << >> THEN runner
    ELSE LET ps == ExpandRule(Head(rules), current_date,
                              start_datetime, end_datetime)
             next == IF ps = << >> THEN runner
                     ELSE add_propagator(runner, ps[1])
         IN  ExpandDay(next, Tail(rules), current_date,
                       start_datetime, end_datetime)

RECURSIVE ExpandFrom(_, _, _, _, _)
\* the outer loop of __init__: while current_date <= end_date
ExpandFrom(runner, rules, current_date, start_datetime, end_datetime) ==
    IF current_date > DateOf(end_datetime) THEN runner
    ELSE ExpandFrom(
            ExpandDay(runner, rules, current_date, start_datetime, end_datetime),
            rules, current_date + 1, start_datetime, end_datetime)

\* SimulationRunner.__init__(start_datetime, end_datetime, session)
SimulationRunner(start_datetime, end_datetime, rules) ==
    ExpandFrom(NewRunner, RulesById(rules), DateOf(start_datetime),
               start_datetime, end_datetime)

RECURSIVE ListenersOf_StrictlyLater(_, _)
\* the listeners appended for one new entry when only listening points
\* strictly after the entry count
ListenersOf_StrictlyLater(listeners, new_entry) ==
    IF listeners = << >> THEN << >>
    ELSE LET l == Head(listeners)
             rest == ListenersOf_StrictlyLater(Tail(listeners), new_entry)
         IN  IF l[1] = new_entry.account_id /\ new_entry.effective_time < l[2]
             THEN <<l[3]>> \o rest
             ELSE rest

RECURSIVE ListenersOf_AnyTime(_, _)
\* the listeners appended for one new entry when every listening point on the
\* entry's account counts, whatever its timestamp
ListenersOf_AnyTime(listeners, new_entry) ==
    IF listeners = << >> THEN << >>
    ELSE LET l == Head(listeners)
             rest == ListenersOf_AnyTime(Tail(listeners), new_entry)
         IN  IF l[1] = new_entry.account_id
             THEN <<l[3]>> \o rest
             ELSE rest

RECURSIVE ListenersOf(_, _)
\* the inner loop of simulate for one new entry: the listeners appended
ListenersOf(listeners, new_entry) ==
    IF listeners = << >> THEN << >>
    ELSE LET l == Head(listeners)
             rest == ListenersOf(Tail(listeners), new_entry)
         IN  IF l[1] = new_entry.account_id /\ new_entry.effective_time <= l[2]
             THEN <<l[3]>> \o rest
             ELSE rest

RECURSIVE Enqueued(_, _)
\* the listeners appended for all new entries, in order
Enqueued(listeners, new_entries) ==
    IF new_entries = << >> THEN << >>
    ELSE ListenersOf(listeners, Head(new_entries))
            \o Enqueued(listeners, Tail(new_entries))

\* one iteration of the while loop of simulate: pop, propagate, re-enqueue
SimulateStep(runner, ledger) ==
    LET propagator == Head(runner.processing_queue)
        new_entries == propagate(propagator, ledger)
    IN  [runner |-> [runner EXCEPT !.processing_queue =
                        Tail(@) \o Enqueued(runner.listeners, new_entries)],
         ledger |-> AddEntries(ledger, new_entries),
         new_entries |-> new_entries]

RECURSIVE Simulate(_, _, _)
\* simulate(): the while loop run to its end, followed for at most fuel
\* iterations; returned = FALSE when the worklist is still not empty then
Simulate(runner, ledger, fuel) ==
    IF runner.processing_queue = << >>
    THEN [returned |-> TRUE, ledger |-> ledger]
    ELSE IF fuel = 0
    THEN [returned |-> FALSE, ledger |-> ledger]
    ELSE LET next == SimulateStep(runner, ledger)
         IN  Simulate(next.runner, next.ledger, fuel - 1)

\* ------------------------------------------------------------------
\* The store of one simulation and the API handlers.  A handler returns
\* its HTTP status, what is committed before its session opens, the
\* session's contents when it reaches simulate() or returns, and the runner
\* it built (simulated = FALSE when it built none).
\* ------------------------------------------------------------------

HTTP_200 == 200
HTTP_201 == 201
HTTP_404 == 404
HTTP_409 == 409
HTTP_422 == 422
HTTP_500 == 500

\* the SQLite file of the simulation: exists = FALSE when there is no file
Database(exists, accounts, funding_rules, balance_entries, simulation_metadata) ==
    [exists |-> exists, accounts |-> accounts, funding_rules |-> funding_rules,
     balance_entries |-> balance_entries,
     simulation_metadata |-> simulation_metadata]

NoFile == Database(FALSE, {}, {}, EmptyLedger, << >>)

SimulationMetadata(start_datetime, end_datetime) ==
    [start_datetime |-> start_datetime, end_datetime |-> end_datetime]

\* simulation_exists(sim_name)
simulation_exists(d) == d.exists

\* delete_simulation with the os.remove left out
delete_simulation_KeepsFile(d) == d

\* delete_simulation(sim_name): os.remove
delete_simulation(d) == NoFile

\* create_simulation(sim_name, start_date, end_date): create_all makes the
\* tables that are missing, then a metadata row is added if a date is given
create_simulation(d, start_date, end_date, now) ==
    [d EXCEPT !.exists = TRUE,
              !.simulation_metadata =
                  IF start_date # Null \/ end_date # Null
                  THEN Append(@, SimulationMetadata(
                            IF start_date # Null THEN start_date ELSE now,
                            IF end_date # Null THEN end_date ELSE now))
                  ELSE @]

Result(status, committed, session, runner, simulated) ==
    [status |-> status, committed |-> committed, session |-> session,
     runner |-> runner, simulated |-> simulated]

\* a handler that returns without changing anything
Refused(status, d) == Result(status, d, d, NewRunner, FALSE)

create_simulation_route(d, start_date, end_date, now) ==
    IF simulation_exists(d) THEN Refused(HTTP_409, d)
    ELSE LET created == create_simulation(d, start_date, end_date, now)
         IN  Result(HTTP_201, created, created, NewRunner, FALSE)

delete_simulation_route(d) ==
    IF ~simulation_exists(d) THEN Refused(HTTP_404, d)
    ELSE Result(HTTP_200, delete_simulation(d), delete_simulation(d),
                NewRunner, FALSE)

\* update_metadata: PATCH /metadata adds the row when there is none and
\* otherwise overwrites the dates that are given; it runs no simulation
update_metadata(d, start_date, end_date, now) ==
    IF ~simulation_exists(d) THEN Refused(HTTP_404, d)
    ELSE IF d.simulation_metadata = << >>
    THEN Result(HTTP_200, d,
            [d EXCEPT !.simulation_metadata =
                << SimulationMetadata(
                        IF start_date # Null THEN start_date ELSE now,
                        IF end_date # Null THEN end_date ELSE now) >>],
            NewRunner, FALSE)
    ELSE Result(HTTP_200, d,
            [d EXCEPT !.simulation_metadata[1] =
                SimulationMetadata(
                    IF start_date # Null THEN start_date ELSE @.start_datetime,
                    IF end_date # Null THEN end_date ELSE @.end_datetime)],
            NewRunner, FALSE)

create_account(d) ==
    IF ~simulation_exists(d) THEN Refused(HTTP_404, d)
    ELSE Result(HTTP_201, d, [d EXCEPT !.accounts = @ \cup {NextId(@)}],
                NewRunner, FALSE)

\* session.delete(acct): the account and, by the delete-orphan cascade of
\* Account.balance_entries, every row with its account_id
delete_account(d, account_id) ==
    IF ~simulation_exists(d) \/ account_id \notin d.accounts
    THEN Refused(HTTP_404, d)
    ELSE Result(HTTP_200, d,
            [d EXCEPT !.accounts = @ \ {account_id},
                      !.balance_entries =
                          FilterEntries(@, {e \in DOMAIN @ : e.account_id # account_id})],
            NewRunner, FALSE)

\* SimulationRunner(meta.start_datetime, meta.end_datetime, session) for
\* meta = session.query(SimulationMetadata).first()
RunnerOf(session) ==
    LET meta == session.simulation_metadata[1]
    IN  SimulationRunner(meta.start_datetime, meta.end_datetime,
                         session.funding_rules)

\* the levels of the request kept as sent, for every rule type
CoercedLevels_NoCoercion(body) == <<body.threshold, body.target_amount>>

\* threshold and target_amount after the per-type coercion
CoercedLevels(body) ==
    IF body.rule_type = "BACKUP_FUNDING" THEN <<0, 0>>
    ELSE <<body.threshold, body.target_amount>>

\* the 422 checks of create_funding_rule
RuleBodyValid(body) ==
    /\ ValidTimeOfDay(body.time_of_day)
    /\ body.rule_type \in {"BACKUP_FUNDING", "TOPUP", "SWEEP_OUT"}
    /\ body.target_account_id # body.source_account_id
    /\ (body.rule_type = "TOPUP" => ~(body.target_amount < body.threshold))
    /\ (body.rule_type = "SWEEP_OUT" => ~(body.target_amount > body.threshold))

\* create_funding_rule with the account lookups made after the rule is
\* added and flushed: the 404 is returned from inside the session
create_funding_rule_StoresBeforeLookup(d, body) ==
    IF ~simulation_exists(d) THEN Refused(HTTP_404, d)
    ELSE IF ~RuleBodyValid(body) THEN Refused(HTTP_422, d)
    ELSE LET rule == FundingRule(
                        NextId({r.id : r \in d.funding_rules}),
                        body.rule_type, body.target_account_id,
                        body.source_account_id, body.time_of_day,
                        body.currency,
                        CoercedLevels(body)[1], CoercedLevels(body)[2])
             session == [d EXCEPT !.funding_rules = @ \cup {rule}]
         IN  IF body.target_account_id \notin d.accounts
                  \/ body.source_account_id \notin d.accounts
             THEN Result(HTTP_404, d, session, NewRunner, FALSE)
             ELSE IF session.simulation_metadata # << >>
             THEN Result(HTTP_201, d, session, RunnerOf(session), TRUE)
             ELSE Result(HTTP_201, d, session, NewRunner, FALSE)

create_funding_rule(d, body) ==
    IF ~simulation_exists(d) THEN Refused(HTTP_404, d)
    ELSE IF ~RuleBodyValid(body) THEN Refused(HTTP_422, d)
    ELSE IF body.target_account_id \notin d.accounts
              \/ body.source_account_id \notin d.accounts
    THEN Refused(HTTP_404, d)
    ELSE LET rule == FundingRule(
                        NextId({r.id : r \in d.funding_rules}),
                        body.rule_type, body.target_account_id,
                        body.source_account_id, body.time_of_day,
                        body.currency,
                        CoercedLevels(body)[1], CoercedLevels(body)[2])
             session == [d EXCEPT !.funding_rules = @ \cup {rule}]
         IN  IF session.simulation_metadata # << >>
             THEN Result(HTTP_201, d, session, RunnerOf(session), TRUE)
             ELSE Result(HTTP_201, d, session, NewRunner, FALSE)

\* delete_funding_rule whose purge also takes the rows without a rule_id
delete_funding_rule_PurgesManual(d, rule_id) ==
    IF ~simulation_exists(d) \/ rule_id \notin {r.id : r \in d.funding_rules}
    THEN Refused(HTTP_404, d)
    ELSE LET session ==
                [d EXCEPT !.funding_rules = {r \in @ : r.id # rule_id},
                          !.balance_entries =
                              FilterEntries(@, {e \in DOMAIN @ : e.rule_id # rule_id
                                                               /\ e.rule_id # Null})]
         IN  IF session.simulation_metadata # << >>
             THEN Result(HTTP_200, d, session, RunnerOf(session), TRUE)
             ELSE Result(HTTP_200, d, session, NewRunner, FALSE)

\* delete_funding_rule that deletes the rule and leaves its rows
delete_funding_rule_NoPurge(d, rule_id) ==
    IF ~simulation_exists(d) \/ rule_id \notin {r.id : r \in d.funding_rules}
    THEN Refused(HTTP_404, d)
    ELSE LET session ==
                [d EXCEPT !.funding_rules = {r \in @ : r.id # rule_id}]
         IN  IF session.simulation_metadata # << >>
             THEN Result(HTTP_200, d, session, RunnerOf(session), TRUE)
             ELSE Result(HTTP_200, d, session, NewRunner, FALSE)

delete_funding_rule(d, rule_id) ==
    IF ~simulation_exists(d) \/ rule_id \notin {r.id : r \in d.funding_rules}
    THEN Refused(HTTP_404, d)
    ELSE LET session ==
                [d EXCEPT !.funding_rules = {r \in @ : r.id # rule_id},
                          !.balance_entries =
                              FilterEntries(@, {e \in DOMAIN @ : e.rule_id # rule_id})]
         IN  IF session.simulation_metadata # << >>
             THEN Result(HTTP_200, d, session, RunnerOf(session), TRUE)
             ELSE Result(HTTP_200, d, session, NewRunner, FALSE)

\* body.description or "Manual entry"
DescriptionOrDefault(description) ==
    IF description = "" THEN "Manual entry" ELSE description

create_entry(d, account_id, body, now) ==
    IF ~simulation_exists(d) \/ account_id \notin d.accounts
    THEN Refused(HTTP_404, d)
    ELSE LET start_dt == IF d.simulation_metadata # << >>
                         THEN d.simulation_metadata[1].start_datetime ELSE now
             end_dt == IF d.simulation_metadata # << >>
                       THEN d.simulation_metadata[1].end_datetime ELSE now
             propagator == ManualEntry(account_id, body.amount, body.currency,
                               body.effective_time,
                               Text(DescriptionOrDefault(body.description)))
         IN  Result(HTTP_201, d, d,
                    add_propagator(
                        SimulationRunner(start_dt, end_dt, d.funding_rules),
                        propagator),
                    TRUE)

\* datetime(2025, 1, day, hour, 0, 0)
Jan2025(day, hour) == (day - 5) * SecondsPerDay + hour * 3600

\* the rows seed_demo_data inserts before it runs the simulation
SeedEntries(first) ==
    << BalanceEntry(first + 0, 500000, "USD", Text("Initial balance"), Jan2025(6, 0), Null),
       BalanceEntry(first + 1, 50000, "USD", Text("Initial balance"), Jan2025(6, 0), Null),
       BalanceEntry(first + 2, 30000, "USD", Text("Initial balance"), Jan2025(6, 0), Null),
       BalanceEntry(first + 3, 60000, "USD", Text("Initial balance"), Jan2025(6, 0), Null),
       BalanceEntry(first + 4, 15000, "USD", Text("Initial balance"), Jan2025(6, 0), Null),
       BalanceEntry(first + 1, -60000, "USD", Text("Wire payment - vendor"), Jan2025(7, 8), Null),
       BalanceEntry(first + 4, -18000, "USD", Text("Reimbursement payout"), Jan2025(7, 8), Null),
       BalanceEntry(first + 3, 50000, "USD", Text("SaaS revenue deposit"), Jan2025(8, 7), Null),
       BalanceEntry(first + 1, -30000, "USD", Text("Wire payment - rent"), Jan2025(9, 8), Null),
       BalanceEntry(first + 4, -20000, "USD", Text("Reimbursement batch"), Jan2025(9, 8), Null),
       BalanceEntry(first + 3, 40000, "USD", Text("SaaS revenue deposit"), Jan2025(10, 7), Null) >>

\* the funding rules seed_demo_data inserts, before their ids are assigned
SeedRules(first) ==
    << FundingRule(Null, "BACKUP_FUNDING", first + 1, first, <<9, 0, 0>>,
                   "USD", 0, 0),
       FundingRule(Null, "BACKUP_FUNDING", first + 2, first, <<9, 0, 0>>,
                   "USD", 0, 0),
       FundingRule(Null, "TOPUP", first + 4, first + 2, <<10, 0, 0>>,
                   "USD", 10000, 25000),
       FundingRule(Null, "SWEEP_OUT", first + 2, first + 3, <<11, 0, 0>>,
                   "USD", 80000, 50000) >>

RECURSIVE AddAccounts(_, _)
\* session.add_all of n new accounts; flush assigns their ids
AddAccounts(accounts, n) ==
    IF n = 0 THEN accounts
    ELSE AddAccounts(accounts \cup {NextId(accounts)}, n - 1)

RECURSIVE AddRules(_, _)
\* session.add(FundingRule(**rd)) for each rd; flush assigns the ids in order
AddRules(rules, rds) ==
    IF rds = << >> THEN rules
    ELSE AddRules(rules \cup {[Head(rds) EXCEPT
                                  !.id = NextId({r.id : r \in rules})]},
                  Tail(rds))

\* seed_demo_data: the simulation is deleted if it exists and created anew
\* (both outside the session), then filled and simulated inside the session.
\* The five accounts get the ids first..first+4 in the order RAMP_JPM,
\* CITI_JPM, INCREASE_HUB, INCREASE_SAAS, INCREASE_REIMB.
seed_demo_data(d) ==
    LET removed == IF simulation_exists(d) THEN delete_simulation(d) ELSE d
        created == create_simulation(removed, Jan2025(6, 0),
                                     Jan2025(10, 24) - 1, Null)
        first == NextId(created.accounts)
        session == [created EXCEPT
                        !.accounts = AddAccounts(@, 5),
                        !.balance_entries = AddEntries(@, SeedEntries(first)),
                        !.funding_rules = AddRules(@, SeedRules(first))]
    IN  Result(HTTP_201, created, session, RunnerOf(session), TRUE)

\* ------------------------------------------------------------------
\* State
\* ------------------------------------------------------------------

VARIABLES
    db,       \* the committed contents of the simulation's SQLite file
    session,  \* the contents the open session sees (db when no call is open)
    runner,   \* the SimulationRunner of the open call
    pc,       \* "idle", or "simulate" while a call is inside simulate()
    call,     \* the open call, or the last one that returned
    calls,    \* accepted calls so far
    steps,    \* propagate() calls the open call has made so far
    pair,     \* two simulations fed the same requests in two orders (SpecOrder)
    probe     \* one propagator or one rule expansion run on its own (SpecPropagate,
              \* SpecExpand)

vars == <<db, session, runner, pc, call, calls, steps, pair, probe>>

\* the value of pair in behaviours that follow a single simulation
NoPair == [a |-> NoFile, b |-> NoFile, todoA |-> << >>, todoB |-> << >>]

\* the value of probe in behaviours that follow the API
NoProbe == [kind |-> "none"]

Call(op, arg, status, simulated) ==
    [op |-> op, arg |-> arg, status |-> status, simulated |-> simulated]

Init ==
    /\ \E w \in WindowInputs, now \in NowInputs :
            db = create_simulation(NoFile, w[1], w[2], now)
    /\ session = db
    /\ runner = NewRunner
    /\ pc = "idle"
    /\ call = Call("create_simulation", Null, HTTP_201, FALSE)
    /\ calls = 0
    /\ steps = 0
    /\ pair = NoPair
    /\ probe = NoProbe

\* get_session: session.commit() when the handler returns
Commit(res) == res.session

\* get_session without the rollback: what the session flushed stays
Rollback_KeepsSession(committed) == session

\* get_session: session.rollback() when the handler raises; what was
\* committed before stays
Rollback(committed) == committed

\* a handler runs up to its first propagate() call; a handler that makes none
\* returns at once and its session is committed
Handle(op, arg, res) ==
    /\ pc = "idle"
    /\ calls < MaxCalls
    /\ steps' = 0
    /\ pair' = pair
    /\ probe' = probe
    /\ calls' = IF res.status \in {HTTP_200, HTTP_201} THEN calls + 1 ELSE calls
    /\ IF res.runner.processing_queue = << >>
       THEN /\ db' = Commit(res)
            /\ session' = db'
            /\ runner' = NewRunner
            /\ pc' = "idle"
            /\ call' = Call(op, arg, res.status, res.simulated)
       ELSE /\ db' = res.committed
            /\ session' = res.session
            /\ runner' = res.runner
            /\ pc' = "simulate"
            /\ call' = Call(op, arg, Null, res.simulated)

CreateSimulation ==
    \E w \in WindowInputs, now \in NowInputs :
        Handle("create_simulation", Null,
               create_simulation_route(db, w[1], w[2], now))

DeleteSimulation ==
    Handle("delete_simulation", Null, delete_simulation_route(db))

UpdateMetadata ==
    \E w \in WindowInputs, now \in NowInputs :
        Handle("update_metadata", Null, update_metadata(db, w[1], w[2], now))

CreateAccount ==
    /\ NextId(db.accounts) <= MaxAccounts
    /\ Handle("create_account", Null, create_account(db))

DeleteAccount ==
    \E account_id \in AccountIdInputs :
        Handle("delete_account", account_id, delete_account(db, account_id))

\* the FundingRuleCreate bodies the model posts
RuleBodyInputs ==
    { [rule_type |-> t, target_account_id |-> a[1], source_account_id |-> a[2],
       time_of_day |-> tod, currency |-> c,
       threshold |-> l[1], target_amount |-> l[2]] :
        t \in RuleTypeInputs, a \in AccountIdInputs \X AccountIdInputs,
        tod \in TimeOfDayInputs, c \in CurrencyInputs, l \in LevelInputs }

CreateFundingRule ==
    \E body \in RuleBodyInputs :
        /\ NextId({r.id : r \in db.funding_rules}) <= MaxRules
        /\ Handle("create_funding_rule", Null, create_funding_rule(db, body))

DeleteFundingRule ==
    \E rule_id \in RuleIdInputs :
        Handle("delete_funding_rule", rule_id, delete_funding_rule(db, rule_id))

EntryBodyInputs ==
    [amount : AmountInputs, currency : CurrencyInputs,
     description : DescriptionInputs, effective_time : EntryTimeInputs]

CreateEntry ==
    \E account_id \in AccountIdInputs, body \in EntryBodyInputs,
       now \in NowInputs :
        Handle("create_entry", account_id, create_entry(db, account_id, body, now))

Seed ==
    Handle("seed", Null, seed_demo_data(db))

\* one iteration of simulate(); when the worklist is empty simulate returns,
\* the handler returns and the session is committed
Propagate ==
    /\ pc = "simulate"
    /\ steps < MaxSteps
    /\ LET next == SimulateStep(runner, session.balance_entries)
           after == [session EXCEPT !.balance_entries = next.ledger]
       IN  /\ calls' = calls
           /\ pair' = pair
           /\ probe' = probe
           /\ IF next.runner.processing_queue = << >>
              THEN /\ steps' = 0
                   /\ db' = after
                   /\ session' = after
                   /\ runner' = NewRunner
                   /\ pc' = "idle"
                   /\ call' = [call EXCEPT !.status =
                                  IF call.op = "delete_funding_rule"
                                  THEN HTTP_200 ELSE HTTP_201]
              ELSE /\ steps' = steps + 1
                   /\ db' = db
                   /\ session' = after
                   /\ runner' = next.runner
                   /\ pc' = "simulate"
                   /\ call' = call

\* propagate() raises (the database refuses a statement): the exception leaves
\* the handler through get_session, which rolls the session back
PropagateFails ==
    /\ pc = "simulate"
    /\ db' = Rollback(db)
    /\ session' = db'
    /\ runner' = NewRunner
    /\ pc' = "idle"
    /\ call' = [call EXCEPT !.status = HTTP_500]
    /\ steps' = 0
    /\ calls' = calls
    /\ pair' = pair
    /\ probe' = probe

Next ==
    \/ CreateSimulation
    \/ DeleteSimulation
    \/ UpdateMetadata
    \/ CreateAccount
    \/ DeleteAccount
    \/ CreateFundingRule
    \/ DeleteFundingRule
    \/ CreateEntry
    \/ Seed
    \/ Propagate
    \/ PropagateFails

Spec == Init /\ [][Next]_vars

\* ------------------------------------------------------------------
\* Two simulations built from the same requests in two orders.  Each
\* request is a whole call: the handler, simulate() and the commit.
\* ------------------------------------------------------------------

\* number of requests each of the two simulations is sent
MaxRequests == 2

NoRuleBody == [rule_type |-> "", target_account_id |-> Null,
               source_account_id |-> Null, time_of_day |-> << >>,
               currency |-> "", threshold |-> 0, target_amount |-> 0]

NoEntryBody == [amount |-> 0, currency |-> "", description |-> "",
                effective_time |-> Null]

Request(op, id, rule_body, entry_body) ==
    [op |-> op, id |-> id, rule_body |-> rule_body, entry_body |-> entry_body]

\* the requests that can change the rules or the manual entries
RequestInputs ==
    {Request("create_funding_rule", Null, body, NoEntryBody) :
        body \in {b \in RuleBodyInputs : RuleBodyValid(b)}}
    \cup {Request("delete_funding_rule", id, NoRuleBody, NoEntryBody) :
        id \in RuleIdInputs}
    \cup {Request("create_entry", id, NoRuleBody, body) :
        id \in AccountIdInputs, body \in EntryBodyInputs}

\* the handler a request is routed to
Route(d, request, now) ==
    IF request.op = "create_funding_rule"
    THEN create_funding_rule(d, request.rule_body)
    ELSE IF request.op = "delete_funding_rule"
    THEN delete_funding_rule(d, request.id)
    ELSE create_entry(d, request.id, request.entry_body, now)

\* simulate() of a call returns (within MaxSteps iterations)
Returns(res) ==
    Simulate(res.runner, res.session.balance_entries, MaxSteps).returned

\* what a call that returns has committed
Committed(res) ==
    [res.session EXCEPT !.balance_entries =
        Simulate(res.runner, @, MaxSteps).ledger]

\* a simulation with its window and MaxAccounts accounts, no rule, no entry
Populated(w, now) ==
    [create_simulation(NoFile, w[1], w[2], now) EXCEPT
        !.accounts = AddAccounts(@, MaxAccounts)]

Bijections(n) ==
    {f \in [1..n -> 1..n] : \A i, j \in 1..n : f[i] = f[j] => i = j}

InitOrder ==
    /\ db = NoFile
    /\ session = NoFile
    /\ runner = NewRunner
    /\ pc = "idle"
    /\ call = Call("none", Null, Null, FALSE)
    /\ calls = 0
    /\ steps = 0
    /\ probe = NoProbe
    /\ \E w \in WindowInputs, now \in NowInputs,
          requests \in [1..MaxRequests -> RequestInputs],
          order \in Bijections(MaxRequests) :
            pair = [a |-> Populated(w, now), b |-> Populated(w, now),
                    todoA |-> requests,
                    todoB |-> [i \in 1..MaxRequests |-> requests[order[i]]]]

\* the first simulation serves its next request
ServeA ==
    /\ pair.todoA # << >>
    /\ \E now \in NowInputs :
        LET res == Route(pair.a, Head(pair.todoA), now)
        IN  /\ Returns(res)
            /\ pair' = [pair EXCEPT !.a = Committed(res), !.todoA = Tail(@)]
    /\ UNCHANGED <<db, session, runner, pc, call, calls, steps, probe>>

\* the second simulation serves its next request, after the first is done
ServeB ==
    /\ pair.todoA = << >>
    /\ pair.todoB # << >>
    /\ \E now \in NowInputs :
        LET res == Route(pair.b, Head(pair.todoB), now)
        IN  /\ Returns(res)
            /\ pair' = [pair EXCEPT !.b = Committed(res), !.todoB = Tail(@)]
    /\ UNCHANGED <<db, session, runner, pc, call, calls, steps, probe>>

NextOrder ==
    \/ ServeA
    \/ ServeB

SpecOrder == InitOrder /\ [][NextOrder]_vars

\* ------------------------------------------------------------------
\* The propagators of one stored rule called directly, in any order and any
\* number of times, on a ledger that manual entries are added to.
\* ------------------------------------------------------------------

\* number of manual entries added in one behaviour
MaxManual == 3

\* number of propagate() calls in one behaviour
MaxPropagates == 3

\* amounts of the manual entries
ProbeAmountInputs == {-2, 1, 2}

\* currencies of the manual entries; the rules are all in USD
ProbeCurrencyInputs == {"USD", "EUR"}

\* effective_time of the manual entries: 08:00 on the first day, before the
\* rule fires, and 09:30, the funding time of the 09:00 firing
ProbeTimeInputs == {SecondsPerDay + 8 * 3600,
                    SecondsPerDay + 9 * 3600 + FundingLag}

\* the rules create_funding_rule stores for the request bodies it accepts,
\* with the id the first rule of a simulation gets
ProbeRules ==
    { FundingRule(NextId({}), body.rule_type, body.target_account_id,
                  body.source_account_id, body.time_of_day, body.currency,
                  CoercedLevels(body)[1], CoercedLevels(body)[2]) :
        body \in {x \in RuleBodyInputs : RuleBodyValid(x)} }

\* the metadata row of a simulation created with the whole window
ProbeWindow ==
    SimulationMetadata(SecondsPerDay, (MaxDays + 1) * SecondsPerDay - 1)

InitPropagate ==
    /\ db = NoFile
    /\ session = NoFile
    /\ runner = NewRunner
    /\ pc = "idle"
    /\ call = Call("none", Null, Null, FALSE)
    /\ calls = 0
    /\ steps = 0
    /\ pair = NoPair
    /\ \E rule \in ProbeRules :
            probe = [kind |-> "propagate", rule |-> rule,
                     ledger |-> EmptyLedger, before |-> EmptyLedger,
                     called |-> << >>, written |-> << >>, repeated |-> FALSE,
                     manual |-> 0, propagates |-> 0]

\* a manual entry is written (ManualEntry.propagate)
ProbeManual ==
    /\ probe.manual < MaxManual
    /\ \E account_id \in AccountIdInputs, amount \in ProbeAmountInputs,
          currency \in ProbeCurrencyInputs, timestamp \in ProbeTimeInputs :
            LET p == ManualEntry(account_id, amount, currency, timestamp,
                                 Text("Manual entry"))
            IN  probe' = [probe EXCEPT
                            !.before = probe.ledger,
                            !.ledger = AddEntries(@, propagate(p, probe.ledger)),
                            !.called = << >>,
                            !.written = << >>,
                            !.repeated = FALSE,
                            !.manual = @ + 1]
    /\ UNCHANGED <<db, session, runner, pc, call, calls, steps, pair>>

\* the propagator the rule expands to on some day of the window is called
ProbePropagate ==
    /\ probe.propagates < MaxPropagates
    /\ \E day \in 1..MaxDays :
            LET ps == ExpandRule(probe.rule, day, ProbeWindow.start_datetime,
                                 ProbeWindow.end_datetime)
                new_entries == propagate(ps[1], probe.ledger)
            IN  /\ ps # << >>
                /\ probe' = [probe EXCEPT
                                !.before = probe.ledger,
                                !.ledger = AddEntries(@, new_entries),
                                !.called = ps,
                                !.written = new_entries,
                                !.repeated = (probe.called = ps),
                                !.propagates = @ + 1]
    /\ UNCHANGED <<db, session, runner, pc, call, calls, steps, pair>>

NextPropagate ==
    \/ ProbeManual
    \/ ProbePropagate

SpecPropagate == InitPropagate /\ [][NextPropagate]_vars

\* ------------------------------------------------------------------
\* SimulationRunner.__init__ run on its own for a window and a set of stored
\* rules.
\* ------------------------------------------------------------------

\* start of the window: midnight of the first day, the firing time 09:00:00
\* of the first day, and one second after it
ExpandStartInputs ==
    {SecondsPerDay, SecondsPerDay + 9 * 3600, SecondsPerDay + 9 * 3600 + 1}

\* end of the window: one second before the firing time 09:00:00 of the last
\* day, that firing time, and the last second of the last day
ExpandEndInputs ==
    {MaxDays * SecondsPerDay + 9 * 3600 - 1, MaxDays * SecondsPerDay + 9 * 3600,
     (MaxDays + 1) * SecondsPerDay - 1}

\* the funding_rules tables the expansion is given: for each rule id no rule
\* or a rule create_funding_rule stores, with threshold 1 -> target_amount 2
\* for a TOPUP and 2 -> 1 for a SWEEP_OUT
ExpandRuleInputs ==
    { {[r EXCEPT !.id = i] : <<i, r>> \in pick} :
        pick \in { f \in SUBSET (RuleIdInputs \X
                        {r \in ProbeRules :
                            /\ r.source_account_id < r.target_account_id
                            /\ (r.rule_type = "BACKUP_FUNDING"
                                    \/ r.threshold # r.target_amount)}) :
                    \A x \in f, y \in f : x[1] = y[1] => x = y } }

InitExpand ==
    /\ db = NoFile
    /\ session = NoFile
    /\ runner = NewRunner
    /\ pc = "idle"
    /\ call = Call("none", Null, Null, FALSE)
    /\ calls = 0
    /\ steps = 0
    /\ pair = NoPair
    /\ \E start_datetime \in ExpandStartInputs, end_datetime \in ExpandEndInputs,
          rules \in ExpandRuleInputs :
            probe = [kind |-> "expand", start_datetime |-> start_datetime,
                     end_datetime |-> end_datetime, rules |-> rules,
                     expanded |-> FALSE, runner |-> NewRunner]

\* SimulationRunner(start_datetime, end_datetime, session)
Expand ==
    /\ ~probe.expanded
    /\ probe' = [probe EXCEPT
                    !.expanded = TRUE,
                    !.runner = SimulationRunner(probe.start_datetime,
                                                probe.end_datetime, probe.rules)]
    /\ UNCHANGED <<db, session, runner, pc, call, calls, steps, pair>>

NextExpand == Expand

SpecExpand == InitExpand /\ [][NextExpand]_vars

\* ------------------------------------------------------------------
\* simulate() run twice from one ledger of manual entries and one set of
\* stored rules, the rules read in id order for one run and in the opposite
\* order for the other, so that the propagators of a day are placed on the
\* worklist in both orders.
\* ------------------------------------------------------------------

MaxWorklistManual == 2
MaxWorklistSteps == 12

RECURSIVE Reverse(_)
Reverse(seq) == IF seq = << >> THEN << >> ELSE Append(Reverse(Tail(seq)), Head(seq))

\* two stored rules, with the ids 1 and 2
WorklistRuleInputs ==
    { {[r1 EXCEPT !.id = 1], [r2 EXCEPT !.id = 2]} :
        r1 \in ProbeRules, r2 \in ProbeRules }

\* SimulationRunner.__init__ with the rows of funding_rules read in a given
\* order
RunnerInOrder(start_datetime, end_datetime, rules) ==
    ExpandFrom(NewRunner, rules, DateOf(start_datetime),
               start_datetime, end_datetime)

InitWorklist ==
    /\ db = NoFile
    /\ session = NoFile
    /\ runner = NewRunner
    /\ pc = "idle"
    /\ call = Call("none", Null, Null, FALSE)
    /\ calls = 0
    /\ steps = 0
    /\ pair = NoPair
    /\ \E rules \in WorklistRuleInputs :
            probe = [kind |-> "worklist", rules |-> rules, started |-> FALSE,
                     manual |-> 0, start |-> EmptyLedger,
                     a |-> [runner |-> NewRunner, ledger |-> EmptyLedger,
                            steps |-> 0],
                     b |-> [runner |-> NewRunner, ledger |-> EmptyLedger,
                            steps |-> 0]]

\* a manual entry is written to the starting ledger
WorklistManual ==
    /\ ~probe.started
    /\ probe.manual < MaxWorklistManual
    /\ \E account_id \in AccountIdInputs, amount \in ProbeAmountInputs,
          currency \in CurrencyInputs, timestamp \in ProbeTimeInputs :
            LET p == ManualEntry(account_id, amount, currency, timestamp,
                                 Text("Manual entry"))
            IN  probe' = [probe EXCEPT
                            !.start = AddEntries(@, propagate(p, probe.start)),
                            !.manual = @ + 1]
    /\ UNCHANGED <<db, session, runner, pc, call, calls, steps, pair>>

\* the two runners are built on the starting ledger
WorklistStart ==
    /\ ~probe.started
    /\ probe' = [probe EXCEPT
                    !.started = TRUE,
                    !.a = [runner |-> RunnerInOrder(
                                        ProbeWindow.start_datetime,
                                        ProbeWindow.end_datetime,
                                        RulesById(probe.rules)),
                           ledger |-> probe.start, steps |-> 0],
                    !.b = [runner |-> RunnerInOrder(
                                        ProbeWindow.start_datetime,
                                        ProbeWindow.end_datetime,
                                        Reverse(RulesById(probe.rules))),
                           ledger |-> probe.start, steps |-> 0]]
    /\ UNCHANGED <<db, session, runner, pc, call, calls, steps, pair>>

\* one iteration of simulate() of a run
WorklistStepOf(run) ==
    LET next == SimulateStep(run.runner, run.ledger)
    IN  [runner |-> next.runner, ledger |-> next.ledger, steps |-> run.steps + 1]

\* the run in id order takes a step
WorklistStepA ==
    /\ probe.started
    /\ probe.a.runner.processing_queue # << >>
    /\ probe.a.steps < MaxWorklistSteps
    /\ probe' = [probe EXCEPT !.a = WorklistStepOf(@)]
    /\ UNCHANGED <<db, session, runner, pc, call, calls, steps, pair>>

\* the run in the opposite order takes a step, once the other has returned
WorklistStepB ==
    /\ probe.started
    /\ probe.a.runner.processing_queue = << >>
    /\ probe.b.runner.processing_queue # << >>
    /\ probe.b.steps < MaxWorklistSteps
    /\ probe' = [probe EXCEPT !.b = WorklistStepOf(@)]
    /\ UNCHANGED <<db, session, runner, pc, call, calls, steps, pair>>

NextWorklist ==
    \/ WorklistManual
    \/ WorklistStart
    \/ WorklistStepA
    \/ WorklistStepB

SpecWorklist == InitWorklist /\ [][NextWorklist]_vars

\* ------------------------------------------------------------------
\* The accounts/transactions variant (routes/accounts.py, routes/databases.py,
\* models.py): one database file with an accounts table (id -> balance) and a
\* transactions table.  The DatabaseManager the handlers call is not part of
\* the sources; its session_scope follows the specification: "Operations are
\* transactional per API call (commit on success, roll back on error)".
\* ------------------------------------------------------------------

MaxTransferCalls == 4

HTTP_400 == 400

\* balance of AccountCreate
BalanceInputs == {0, 2}

\* amount of TransactionCreate
TransferAmountInputs == {-1, 0, 1, 2, 3}

\* from_account_id and to_account_id of TransactionCreate: none, the ids an
\* account can have, and one more
TransferAccountInputs == {Null} \cup (1..(MaxAccounts + 1))

NoDatabase == [exists |-> FALSE, accounts |-> << >>, transactions |-> << >>]

\* what a handler of the variant hands back: its status, the contents of its
\* session when the with block is left, and whether it is left by an exception
Exit(status, contents, raised) ==
    [status |-> status, session |-> contents, raised |-> raised]

\* the call succeeded: no exception, and a 2xx response
Success(exit) == ~exit.raised /\ exit.status \in {HTTP_200, HTTP_201}

\* mgr.session_scope(db_name): what is committed when the block is left; the
\* session is committed on success and rolled back on error
session_scope(committed, exit) ==
    IF Success(exit) THEN exit.session ELSE committed

\* create_database
create_database(d) ==
    IF d.exists THEN Exit(HTTP_409, d, FALSE)
    ELSE Exit(HTTP_201, [NoDatabase EXCEPT !.exists = TRUE], FALSE)

\* delete_database
delete_database(d) ==
    IF ~d.exists THEN Exit(HTTP_404, d, FALSE)
    ELSE Exit(HTTP_200, NoDatabase, FALSE)

\* Transaction(...)
Transaction(id, from_account_id, to_account_id, amount) ==
    [id |-> id, from_account_id |-> from_account_id,
     to_account_id |-> to_account_id, amount |-> amount]

\* create_account of routes/accounts.py
accounts_create_account(d, balance) ==
    IF ~d.exists THEN Exit(HTTP_404, d, FALSE)
    ELSE LET id == NextId(DOMAIN d.accounts)
         IN  Exit(HTTP_201,
                  [d EXCEPT !.accounts =
                      [a \in DOMAIN d.accounts \cup {id} |->
                          IF a = id THEN balance ELSE d.accounts[a]]],
                  FALSE)

\* update_account; body.balance is << >> for a missing balance and <<b>> for
\* the balance b
update_account(d, account_id, body) ==
    IF ~d.exists THEN Exit(HTTP_404, d, FALSE)
    ELSE IF account_id \notin DOMAIN d.accounts THEN Exit(HTTP_404, d, FALSE)
    ELSE IF body.balance # << >>
    THEN Exit(HTTP_200, [d EXCEPT !.accounts[account_id] = body.balance[1]], FALSE)
    ELSE Exit(HTTP_200, d, FALSE)

\* the transactions after session.delete(acct): the foreign keys that named
\* the account are set to NULL
Orphaned(transactions, account_id) ==
    [i \in 1..Len(transactions) |->
        [transactions[i] EXCEPT
            !.from_account_id = IF @ = account_id THEN Null ELSE @,
            !.to_account_id = IF @ = account_id THEN Null ELSE @]]

\* delete_account of routes/accounts.py
accounts_delete_account(d, account_id) ==
    IF ~d.exists THEN Exit(HTTP_404, d, FALSE)
    ELSE IF account_id \notin DOMAIN d.accounts THEN Exit(HTTP_404, d, FALSE)
    ELSE Exit(HTTP_200,
              [d EXCEPT
                  !.accounts = [a \in DOMAIN d.accounts \ {account_id} |->
                                    d.accounts[a]],
                  !.transactions = Orphaned(@, account_id)],
              FALSE)

\* create_transaction
create_transaction(d, body) ==
    IF ~d.exists THEN Exit(HTTP_404, d, FALSE)
    ELSE IF body.amount <= 0 THEN Exit(HTTP_400, d, FALSE)
    ELSE IF body.from_account_id # Null
                /\ body.from_account_id \notin DOMAIN d.accounts
    THEN Exit(HTTP_404, d, FALSE)
    ELSE IF body.from_account_id # Null
                /\ d.accounts[body.from_account_id] < body.amount
    THEN Exit(HTTP_400, d, FALSE)
    ELSE LET debited ==
                IF body.from_account_id # Null
                THEN [d EXCEPT !.accounts[body.from_account_id] = @ - body.amount]
                ELSE d
         IN  IF body.to_account_id # Null
                    /\ body.to_account_id \notin DOMAIN debited.accounts
             THEN Exit(HTTP_404, debited, FALSE)
             ELSE LET credited ==
                        IF body.to_account_id # Null
                        THEN [debited EXCEPT
                                !.accounts[body.to_account_id] = @ + body.amount]
                        ELSE debited
                      txn == Transaction(Len(d.transactions) + 1,
                                         body.from_account_id,
                                         body.to_account_id, body.amount)
                  IN  Exit(HTTP_201,
                           [credited EXCEPT !.transactions = Append(@, txn)],
                           FALSE)

TransactionBodyInputs ==
    [from_account_id : TransferAccountInputs,
     to_account_id : TransferAccountInputs, amount : TransferAmountInputs]

InitTransfer ==
    /\ db = NoFile
    /\ session = NoFile
    /\ runner = NewRunner
    /\ pc = "idle"
    /\ call = Call("none", Null, Null, FALSE)
    /\ calls = 0
    /\ steps = 0
    /\ pair = NoPair
    /\ probe = [kind |-> "transfer", store |-> NoDatabase, before |-> NoDatabase,
                op |-> "none", status |-> Null, calls |-> 0]

\* one request of the variant is served: its session is committed as
\* session_scope commits it
Serve(op, exit) ==
    /\ probe.calls < MaxTransferCalls
    /\ probe' = [probe EXCEPT
                    !.store = session_scope(probe.store, exit),
                    !.before = probe.store,
                    !.op = op,
                    !.status = exit.status,
                    !.calls = @ + 1]
    /\ UNCHANGED <<db, session, runner, pc, call, calls, steps, pair>>

CreateDatabase == Serve("create_database", create_database(probe.store))

AccountsCreateAccount ==
    \E balance \in BalanceInputs :
        /\ NextId(DOMAIN probe.store.accounts) <= MaxAccounts
        /\ Serve("create_account", accounts_create_account(probe.store, balance))

DeleteDatabase == Serve("delete_database", delete_database(probe.store))

\* balance of AccountUpdate: missing, or a value
BalanceUpdateInputs == {<< >>} \cup {<<b>> : b \in BalanceInputs}

UpdateAccount ==
    \E account_id \in 1..(MaxAccounts + 1), balance \in BalanceUpdateInputs :
        Serve("update_account",
              update_account(probe.store, account_id, [balance |-> balance]))

AccountsDeleteAccount ==
    \E account_id \in 1..(MaxAccounts + 1) :
        Serve("delete_account", accounts_delete_account(probe.store, account_id))

CreateTransaction ==
    \E body \in TransactionBodyInputs :
        Serve("create_transaction", create_transaction(probe.store, body))

NextTransfer ==
    \/ CreateDatabase
    \/ DeleteDatabase
    \/ AccountsCreateAccount
    \/ UpdateAccount
    \/ AccountsDeleteAccount
    \/ CreateTransaction

SpecTransfer == InitTransfer /\ [][NextTransfer]_vars

\* ------------------------------------------------------------------
\* simulate() run from a ledger of manual entries for stored rules of which no
\* two share their time_of_day, over several windows.
\* ------------------------------------------------------------------

MaxDistinctManual == 2

\* time_of_day of the rules: 09:00:00 and 09:30:00, the funding time of a rule
\* that fires at 09:00:00
DistinctTimeInputs == {<<9, 0, 0>>, <<9, 30, 0>>}

\* the funding_rules tables: one or two rules create_funding_rule stores, with
\* the ids 1 and 2, no two of them with the same time_of_day
DistinctRuleInputs ==
    { {[r1 EXCEPT !.id = 1, !.time_of_day = t1]} :
        r1 \in ProbeRules, t1 \in DistinctTimeInputs }
    \cup
    { {[r1 EXCEPT !.id = 1, !.time_of_day = t[1]],
       [r2 EXCEPT !.id = 2, !.time_of_day = t[2]]} :
        r1 \in ProbeRules, r2 \in ProbeRules,
        t \in {x \in DistinctTimeInputs \X DistinctTimeInputs : x[1] # x[2]} }

\* windows: every day whole, the first day only, and from 09:15 of the first
\* day to 09:15 of the last
DistinctWindowInputs ==
    { <<SecondsPerDay, (MaxDays + 1) * SecondsPerDay - 1>>,
      <<SecondsPerDay, 2 * SecondsPerDay - 1>>,
      <<SecondsPerDay + 9 * 3600 + 900, MaxDays * SecondsPerDay + 9 * 3600 + 900>> }

RECURSIVE Power(_, _)
Power(b, n) == IF n = 0 THEN 1 ELSE b * Power(b, n - 1)

\* iterations of simulate() that n propagators with n different firing times
\* can take when a propagator only wakes later ones: the k-th earliest runs
\* once and once more for each of the two rows of each run of an earlier one,
\* 3^(k-1) times at most
StepCap(n) == (Power(3, n) - 1) \div 2

InitDistinct ==
    /\ db = NoFile
    /\ session = NoFile
    /\ runner = NewRunner
    /\ pc = "idle"
    /\ call = Call("none", Null, Null, FALSE)
    /\ calls = 0
    /\ steps = 0
    /\ pair = NoPair
    /\ \E rules \in DistinctRuleInputs :
            probe = [kind |-> "distinct", rules |-> rules, started |-> FALSE,
                     manual |-> 0, start |-> EmptyLedger, propagators |-> 0,
                     run |-> [runner |-> NewRunner, ledger |-> EmptyLedger,
                              steps |-> 0]]

\* a manual entry is written to the starting ledger
DistinctManual ==
    /\ ~probe.started
    /\ probe.manual < MaxDistinctManual
    /\ \E account_id \in AccountIdInputs, amount \in ProbeAmountInputs,
          currency \in CurrencyInputs, timestamp \in ProbeTimeInputs :
            LET p == ManualEntry(account_id, amount, currency, timestamp,
                                 Text("Manual entry"))
            IN  probe' = [probe EXCEPT
                            !.start = AddEntries(@, propagate(p, probe.start)),
                            !.manual = @ + 1]
    /\ UNCHANGED <<db, session, runner, pc, call, calls, steps, pair>>

\* the runner is built for a window on the starting ledger
DistinctStart ==
    /\ ~probe.started
    /\ \E w \in DistinctWindowInputs :
            LET built == SimulationRunner(w[1], w[2], probe.rules)
            IN  probe' = [probe EXCEPT
                            !.started = TRUE,
                            !.propagators = Len(built.processing_queue),
                            !.run = [runner |-> built, ledger |-> probe.start,
                                     steps |-> 0]]
    /\ UNCHANGED <<db, session, runner, pc, call, calls, steps, pair>>

\* one iteration of simulate()
DistinctStep ==
    /\ probe.started
    /\ probe.run.runner.processing_queue # << >>
    /\ probe.run.steps < StepCap(probe.propagators)
    /\ probe' = [probe EXCEPT !.run = WorklistStepOf(@)]
    /\ UNCHANGED <<db, session, runner, pc, call, calls, steps, pair>>

NextDistinct ==
    \/ DistinctManual
    \/ DistinctStart
    \/ DistinctStep

SpecDistinct == InitDistinct /\ [][NextDistinct]_vars

\* ------------------------------------------------------------------
\* Properties
\* ------------------------------------------------------------------

Currencies(ledger) == {e.currency : e \in DOMAIN ledger}

\* the sum of the amounts of the rule-generated rows of one currency
DerivedSum(ledger, currency) ==
    SumAmounts(ledger, {e \in DOMAIN ledger :
                            e.rule_id # Null /\ e.currency = currency})

\* the rows of the ledger with rule_id = NULL, as a bag
ManualEntries(ledger) ==
    FilterEntries(ledger, {e \in DOMAIN ledger : e.rule_id = Null})

\* the rows of the ledger with a rule_id, as a bag
DerivedEntries(ledger) ==
    FilterEntries(ledger, {e \in DOMAIN ledger : e.rule_id # Null})

\* bag inclusion: every row of a is in b at least as often
SubLedger(a, b) ==
    \A e \in DOMAIN a : e \in DOMAIN b /\ a[e] <= b[e]

\* the calls that run a resimulation
ResimulationOps == {"create_funding_rule", "delete_funding_rule", "create_entry"}

Succeeded(c) == c.status \in {HTTP_200, HTTP_201}

\* C1: after every successful API call, for each currency the amounts of all
\* entries with a non-null rule_id sum to 0.  db only ever holds what a
\* returned call committed, so this is stated of db in every state.
C1_Conservation ==
    \A c \in Currencies(db.balance_entries) :
        DerivedSum(db.balance_entries, c) = 0

\* propagators the runner of the open call was built with: one per
\* listening point, and the ManualEntry of create_entry
RunPropagators ==
    Len(runner.listeners) + IF call.op = "create_entry" THEN 1 ELSE 0

\* C2: simulate() terminates for every set of API-validated rules, window and
\* manual entries.  As a statement a finite run can refute: while a call is
\* inside simulate() it has made fewer than 10 x |propagators| propagate()
\* calls, the overrun bound of the design's fixed-point argument.
C2_SimulateTerminates ==
    pc = "simulate" => steps < 10 * RunPropagators

\* the propagators the rules of d expand to over its window
ExpandedPropagators(d) ==
    IF d.simulation_metadata = << >> THEN << >>
    ELSE RunnerOf(d).processing_queue

\* every expanded propagator, if re-run on the ledger of d, writes nothing
Quiescent(d) ==
    \A i \in 1..Len(ExpandedPropagators(d)) :
        propagate(ExpandedPropagators(d)[i], d.balance_entries) = << >>

\* C3: when simulate() has returned, re-running any expanded propagator
\* writes no new entry.
C3_QuiescentAfterSimulate ==
    (pc = "idle" /\ call.simulated /\ Succeeded(call)) => Quiescent(db)

\* the rules without their ids
RulesNoId(d) == {[r EXCEPT !.id = Null] : r \in d.funding_rules}

\* two simulations hold the same rules, window and manual entries
SameInputs(x, y) ==
    /\ RulesNoId(x) = RulesNoId(y)
    /\ Cardinality(x.funding_rules) = Cardinality(y.funding_rules)
    /\ x.simulation_metadata = y.simulation_metadata
    /\ ManualEntries(x.balance_entries) = ManualEntries(y.balance_entries)

\* equal balances for every (account, currency, as_of): balances only change
\* at the effective_time of a row, so those times decide it
SameBalances(x, y) ==
    LET rows == DOMAIN x \cup DOMAIN y
    IN  \A e \in rows, f \in rows :
            get_balance(x, e.account_id, f.effective_time, e.currency, Null)
                = get_balance(y, e.account_id, f.effective_time, e.currency, Null)

\* C4: two simulations that hold the same rules, window and manual entries,
\* built by different orders of API calls, have equal balances for every
\* (account, currency, as_of).
C4_OrderIndependent ==
    (pair.todoA = << >> /\ pair.todoB = << >> /\ SameInputs(pair.a, pair.b))
        => SameBalances(pair.a.balance_entries, pair.b.balance_entries)

\* C5: no resimulation (funding-rule creation or deletion, manual-entry
\* creation) deletes or modifies an entry whose rule_id is null: in every step
\* of such a call the manual entries committed before the call are all still
\* in the session, and in what the call commits.
C5_NoManualLoss ==
    [][call'.op \in ResimulationOps =>
        /\ SubLedger(ManualEntries(db.balance_entries),
                     ManualEntries(session'.balance_entries))
        /\ SubLedger(ManualEntries(db.balance_entries),
                     ManualEntries(db'.balance_entries))]_vars

\* a rule deletion has resimulated and returned on a ledger with manual entries
C5_Witness ==
    /\ pc = "idle"
    /\ call.op = "delete_funding_rule"
    /\ call.status = HTTP_200
    /\ call.simulated
    /\ DOMAIN ManualEntries(db.balance_entries) # {}
    /\ DOMAIN DerivedEntries(db.balance_entries) # {}

\* C6: deleting funding rule r removes every entry tagged rule_id = r and no
\* other: when the call returns, no committed entry has rule_id = r, and every
\* entry of another rule and every manual entry committed before the call is
\* still there.
C6_DeleteRemovesExactly ==
    [][(call'.op = "delete_funding_rule" /\ call'.status = HTTP_200) =>
        /\ \A e \in DOMAIN db'.balance_entries : e.rule_id # call'.arg
        /\ SubLedger(FilterEntries(db.balance_entries,
                                   {e \in DOMAIN db.balance_entries :
                                       e.rule_id # call'.arg}),
                     db'.balance_entries)]_vars

\* inside a rule deletion: the rule had entries, the session has none of them
\* left and still holds entries of another rule
C6_Witness ==
    /\ pc = "simulate"
    /\ call.op = "delete_funding_rule"
    /\ \E e \in DOMAIN db.balance_entries : e.rule_id = call.arg
    /\ \A e \in DOMAIN session.balance_entries : e.rule_id # call.arg
    /\ \E e \in DOMAIN session.balance_entries : e.rule_id # Null

\* C7: if propagate() fails during a resimulation, nothing of the call is
\* committed: nothing is committed while the call is inside simulate(), and
\* after the failure the store and the session are the store as it was.
C7_FailureCommitsNothing ==
    [][call'.op \in ResimulationOps =>
        /\ (pc' = "simulate" => db' = db)
        /\ (call'.status = HTTP_500 => db' = db /\ session' = db)]_vars

\* a rule creation failed inside simulate() on a simulation with entries; the
\* rule it had added is not stored
C7_Witness ==
    /\ pc = "idle"
    /\ call.op = "create_funding_rule"
    /\ call.status = HTTP_500
    /\ db.funding_rules = {}
    /\ DOMAIN db.balance_entries # {}

\* the per-type constraints of a stored rule
RuleWellFormed(r) ==
    /\ r.source_account_id # r.target_account_id
    /\ r.rule_type \in {"BACKUP_FUNDING", "TOPUP", "SWEEP_OUT"}
    /\ (r.rule_type = "TOPUP" => r.target_amount >= r.threshold)
    /\ (r.rule_type = "SWEEP_OUT" => r.target_amount <= r.threshold)
    /\ (r.rule_type = "BACKUP_FUNDING" => r.threshold = 0 /\ r.target_amount = 0)

\* C8: every funding rule stored in a simulation satisfies the per-type
\* constraints.
C8_StoredRulesValid ==
    \A r \in db.funding_rules \cup session.funding_rules : RuleWellFormed(r)

\* a BACKUP_FUNDING rule created through the API, next to a rule with
\* different levels
C8_Witness ==
    /\ call.op = "create_funding_rule"
    /\ call.status = HTTP_201
    /\ \E r \in db.funding_rules : r.rule_type = "BACKUP_FUNDING"
    /\ \E r \in db.funding_rules : r.threshold # r.target_amount

\* C9: a funding-rule creation that is rejected with 422 or 404 stores no
\* rule, runs no simulation and leaves the ledger unchanged.
C9_RejectedRuleChangesNothing ==
    [][(call'.op = "create_funding_rule"
            /\ call'.status \in {HTTP_404, HTTP_422}) =>
        /\ db' = db
        /\ session' = db
        /\ pc' = "idle"
        /\ ~call'.simulated]_vars

\* a rule creation was rejected on a simulation that holds a rule and entries
C9_Witness ==
    /\ call.op = "create_funding_rule"
    /\ call.status \in {HTTP_404, HTTP_422}
    /\ db.funding_rules # {}
    /\ DOMAIN db.balance_entries # {}

\* what POST /seed commits when there is no simulation of that name
SeedOnNothing == Committed(seed_demo_data(NoFile))

\* C10: POST /seed on a simulation in any prior state yields the accounts,
\* rules, window and ledger that POST /seed yields on a non-existent
\* simulation.
C10_SeedReplaces ==
    (pc = "idle" /\ call.op = "seed" /\ call.status = HTTP_201)
        => db = SeedOnNothing

\* a seed has returned after at least two accepted calls on the simulation
C10_Witness ==
    /\ pc = "idle"
    /\ call.op = "seed"
    /\ call.status = HTTP_201
    /\ calls >= 3

\* the rows a run added: the bag after minus the bag before
NewRows(before, after) ==
    [e \in {x \in DOMAIN after : x \notin DOMAIN before \/ after[x] > before[x]}
        |-> after[e] - (IF e \in DOMAIN before THEN before[e] ELSE 0)]

\* the last call was a resimulation that ran simulate() and returned
Resimulated(c) == c.op \in ResimulationOps /\ c.simulated /\ Succeeded(c)

\* the rows of the ledger tagged with the rule of propagator p and dated at
\* its firing time or its funding time
RowsOfFiring(ledger, p) ==
    FilterEntries(ledger, {e \in DOMAIN ledger :
                              /\ e.rule_id = p.rule_id
                              /\ e.effective_time \in
                                    {p.timestamp, p.funding_timestamp}})

\* no manual entry on the target of p takes effect after p fires
NoLaterManual(ledger, p) ==
    \A e \in DOMAIN ledger :
        (e.rule_id = Null /\ e.account_id = p.target_account_id)
            => e.effective_time <= p.timestamp

\* C11: with a single BACKUP_FUNDING rule, after a run the ledger holds for
\* each firing time at which the target balance is b < 0 exactly one pair of
\* the rule's rows (source -|b| at the firing time, target +|b| 30 minutes
\* later), holds none for a firing time at which the target balance is 0, and
\* the target's end-of-window balance is 0 when no manual entry on the target
\* follows the firing.
C11_BackupFundingOnePair ==
    (pc = "idle" /\ Resimulated(call)
        /\ Cardinality(db.funding_rules) = 1
        /\ \A r \in db.funding_rules : r.rule_type = "BACKUP_FUNDING") =>
    LET ps == ExpandedPropagators(db)
    IN  \A i \in 1..Len(ps) :
            LET p == ps[i]
                b == get_balance(db.balance_entries, p.target_account_id,
                                 p.timestamp, p.currency, Null)
            IN  /\ b < 0 =>
                    RowsOfFiring(db.balance_entries, p) =
                        AddEntries(EmptyLedger,
                            << BalanceEntry(p.source_account_id, b,
                                   p.currency, p.description,
                                   p.timestamp, p.rule_id),
                               BalanceEntry(p.target_account_id, -b,
                                   p.currency, p.description,
                                   p.funding_timestamp, p.rule_id) >>)
                /\ b = 0 => RowsOfFiring(db.balance_entries, p) = EmptyLedger
                /\ (b < 0 /\ NoLaterManual(db.balance_entries, p)) =>
                    get_balance(db.balance_entries, p.target_account_id,
                        db.simulation_metadata[1].end_datetime,
                        p.currency, Null) = 0

\* C12: every existing simulation has exactly one SimulationMetadata row,
\* whether or not create_simulation was given dates, and no later operation
\* adds a second one or removes it.
C12_OneMetadataRow ==
    simulation_exists(db) => Len(db.simulation_metadata) = 1

\* C13: deleting an account removes all of its balance entries, and in every
\* reachable state every balance entry's account_id names an existing account.
C13_EntriesNameAccounts ==
    \A e \in DOMAIN db.balance_entries : e.account_id \in db.accounts

\* C14: Topup.propagate is idempotent: called twice in a row with no other
\* ledger change in between, the second call writes nothing.
C14_TopupIdempotent ==
    (probe.repeated /\ probe.called[1].kind = "Topup") => probe.written = << >>

\* C15: SweepOut.propagate is idempotent: called twice in a row with no other
\* ledger change in between, the second call writes nothing.
C15_SweepOutIdempotent ==
    (probe.repeated /\ probe.called[1].kind = "SweepOut") => probe.written = << >>

\* the sum of the amounts of the rows of one account and currency that take
\* effect at or before a time
BalanceAsOf(ledger, account_id, currency, timestamp) ==
    SumAmounts(ledger, {e \in DOMAIN ledger :
                            /\ e.account_id = account_id
                            /\ e.currency = currency
                            /\ e.effective_time <= timestamp})

\* the sum of the amounts of the rows of one rule on one account and currency
\* that take effect exactly at a time
RulePostingAt(ledger, rule_id, account_id, currency, timestamp) ==
    SumAmounts(ledger, {e \in DOMAIN ledger :
                            /\ e.rule_id = rule_id
                            /\ e.account_id = account_id
                            /\ e.currency = currency
                            /\ e.effective_time = timestamp})

\* a propagator of this kind was the last thing called
Called(kind) == probe.called # << >> /\ probe.called[1].kind = kind

\* the amount of the row the last call wrote on an account, 0 if it wrote none
WrittenOn(account_id) ==
    IF \E i \in 1..Len(probe.written) : probe.written[i].account_id = account_id
    THEN LET i == CHOOSE j \in 1..Len(probe.written) :
                        probe.written[j].account_id = account_id
         IN  probe.written[i].amount
    ELSE 0

\* the delta a Topup has to compute from the target balance and its prior
\* contribution
TopupDelta(target_balance, prior, threshold, target_amount) ==
    IF target_balance > threshold
    THEN IF prior <= target_balance - threshold
         THEN -prior ELSE -(target_balance - threshold)
    ELSE IF target_balance < threshold
    THEN target_amount - target_balance - prior
    ELSE 0

\* C16: Topup.propagate computes delta from target_balance (the target's rows
\* in the rule's currency with effective_time <= firing time) and prior (this
\* rule's rows on the target exactly at the funding timestamp):
\* -min(prior, target_balance - threshold) above the threshold,
\* target_amount - target_balance - prior below it, 0 at the threshold.  After
\* a below-threshold firing the rule's net posting on the target at the funding
\* timestamp is target_amount - target_balance.
C16_TopupDelta ==
    Called("Topup") =>
        LET p == probe.called[1]
            funding == p.timestamp + FundingLag
            target_balance == BalanceAsOf(probe.before, p.target_account_id,
                                          p.currency, p.timestamp)
            prior == RulePostingAt(probe.before, p.rule_id,
                                   p.target_account_id, p.currency, funding)
            delta == TopupDelta(target_balance, prior,
                                p.threshold, p.target_amount)
        IN  /\ delta = 0 <=> probe.written = << >>
            /\ WrittenOn(p.target_account_id) = delta
            /\ target_balance < p.threshold =>
                    RulePostingAt(probe.ledger, p.rule_id, p.target_account_id,
                                  p.currency, funding)
                        = p.target_amount - target_balance

\* a Topup fired below its threshold when it had already contributed
C16_Witness ==
    /\ Called("Topup")
    /\ probe.written # << >>
    /\ LET p == probe.called[1]
       IN  /\ BalanceAsOf(probe.before, p.target_account_id,
                          p.currency, p.timestamp) < p.threshold
           /\ RulePostingAt(probe.before, p.rule_id, p.target_account_id,
                            p.currency, p.timestamp + FundingLag) # 0

\* the delta a SweepOut has to compute from the source balance and its prior
\* sweep
SweepOutDelta(source_balance, prior, threshold, target_amount) ==
    IF source_balance > threshold
    THEN -(source_balance - target_amount + prior)
    ELSE IF source_balance < threshold /\ prior < 0
    THEN IF -prior <= threshold - source_balance
         THEN -prior ELSE threshold - source_balance
    ELSE 0

\* C17: SweepOut.propagate computes delta from source_balance (as of the
\* firing time) and prior (this rule's rows on the source exactly at the
\* funding timestamp): -(source_balance - target_amount + prior) above the
\* threshold, min(-prior, threshold - source_balance) below it when prior < 0,
\* otherwise 0.  After an above-threshold firing the rule's net posting on the
\* source at the funding timestamp is -(source_balance - target_amount).
C17_SweepOutDelta ==
    Called("SweepOut") =>
        LET p == probe.called[1]
            funding == p.timestamp + FundingLag
            source_balance == BalanceAsOf(probe.before, p.source_account_id,
                                          p.currency, p.timestamp)
            prior == RulePostingAt(probe.before, p.rule_id,
                                   p.source_account_id, p.currency, funding)
            delta == SweepOutDelta(source_balance, prior,
                                   p.threshold, p.target_amount)
        IN  /\ delta = 0 <=> probe.written = << >>
            /\ WrittenOn(p.source_account_id) = delta
            /\ source_balance > p.threshold =>
                    RulePostingAt(probe.ledger, p.rule_id, p.source_account_id,
                                  p.currency, funding)
                        = -(source_balance - p.target_amount)

\* a SweepOut fired above its threshold when it had already swept
C17_Witness ==
    /\ Called("SweepOut")
    /\ probe.written # << >>
    /\ LET p == probe.called[1]
       IN  /\ BalanceAsOf(probe.before, p.source_account_id,
                          p.currency, p.timestamp) > p.threshold
           /\ RulePostingAt(probe.before, p.rule_id, p.source_account_id,
                            p.currency, p.timestamp + FundingLag) # 0

\* a rule propagator was the last thing called
CalledRule == Called("Topup") \/ Called("SweepOut")

\* C18: every propagate() call of a Topup or SweepOut writes either nothing or
\* exactly two entries, one on the rule's source account and one on its target
\* account, with amounts that sum to zero, both in the rule's currency and
\* tagged with the rule's rule_id; it writes to no other account and deletes or
\* modifies no existing entry.
C18_WritesOnePairOrNothing ==
    CalledRule =>
        LET p == probe.called[1]
            w == probe.written
        IN  /\ \/ w = << >>
               \/ /\ Len(w) = 2
                  /\ {w[1].account_id, w[2].account_id} =
                        {p.source_account_id, p.target_account_id}
                  /\ w[1].account_id # w[2].account_id
                  /\ w[1].amount + w[2].amount = 0
                  /\ \A i \in 1..2 : /\ w[i].currency = p.currency
                                     /\ w[i].rule_id = probe.rule.id
                                     /\ w[i].amount # 0
            /\ SubLedger(probe.before, probe.ledger)
            /\ NewRows(probe.before, probe.ledger) = AddEntries(EmptyLedger, w)

\* a rule propagator wrote a pair onto a ledger that already held rows of the
\* rule and manual rows
C18_Witness ==
    /\ CalledRule
    /\ Len(probe.written) = 2
    /\ DOMAIN ManualEntries(probe.before) # {}
    /\ DOMAIN DerivedEntries(probe.before) # {}

\* C19: a Topup with non-zero delta debits the source with -delta at the firing
\* timestamp and credits the target with +delta at the firing timestamp + 30
\* minutes; a SweepOut with non-zero delta posts its source entry (+delta) and
\* its target entry (-delta) both at the firing timestamp + 30 minutes.
C19_PostingTimes ==
    (CalledRule /\ probe.written # << >>) =>
        LET p == probe.called[1]
            firing == Combine(DateOf(p.timestamp), TimeOfDay(probe.rule.time_of_day))
            source == CHOOSE e \in DOMAIN NewRows(probe.before, probe.ledger) :
                            e.account_id = probe.rule.source_account_id
            target == CHOOSE e \in DOMAIN NewRows(probe.before, probe.ledger) :
                            e.account_id = probe.rule.target_account_id
        IN  /\ p.timestamp = firing
            /\ target.effective_time = firing + FundingLag
            /\ source.amount = -target.amount
            /\ Called("Topup") =>
                    /\ source.effective_time = firing
                    /\ target.amount = TopupDiff(p, probe.before)
            /\ Called("SweepOut") =>
                    /\ source.effective_time = firing + FundingLag
                    /\ source.amount = SweepOutDiff(p, probe.before)

\* a SweepOut has posted on the second day of the window
C19_Witness ==
    /\ Called("SweepOut")
    /\ probe.written # << >>
    /\ DateOf(probe.called[1].timestamp) = MaxDays

\* the propagators in the queue that belong to a rule and fire at a time
QueuedFor(queue, rule, timestamp) ==
    {i \in 1..Len(queue) : /\ queue[i].rule_id = rule.id
                           /\ queue[i].timestamp = timestamp}

\* the time a rule fires on a date: the date at midnight plus the hours,
\* minutes and seconds of its time_of_day
FiringTime(rule, date) ==
    date * SecondsPerDay + rule.time_of_day[1] * 3600
        + rule.time_of_day[2] * 60 + rule.time_of_day[3]

\* C20: rule expansion creates exactly one propagator for each pair (rule,
\* date) whose firing time ts satisfies start <= ts <= end and none for any
\* other pair; TOPUP and BACKUP_FUNDING rules become Topup propagators and
\* SWEEP_OUT rules SweepOut propagators, carrying the rule's id, accounts,
\* currency, threshold and target_amount.
C20_ExpansionExact ==
    (probe.kind = "expand" /\ probe.expanded) =>
        LET queue == probe.runner.processing_queue
        IN  /\ \A rule \in probe.rules, date \in 0..(MaxDays + 1) :
                LET ts == FiringTime(rule, date)
                    qs == QueuedFor(queue, rule, ts)
                IN  IF probe.start_datetime <= ts /\ ts <= probe.end_datetime
                    THEN /\ Cardinality(qs) = 1
                         /\ \A i \in qs :
                              /\ queue[i].kind =
                                    IF rule.rule_type = "SWEEP_OUT"
                                    THEN "SweepOut" ELSE "Topup"
                              /\ queue[i].target_account_id = rule.target_account_id
                              /\ queue[i].source_account_id = rule.source_account_id
                              /\ queue[i].currency = rule.currency
                              /\ queue[i].threshold = rule.threshold
                              /\ queue[i].target_amount = rule.target_amount
                    ELSE qs = {}
            /\ \A i \in 1..Len(queue) :
                \E rule \in probe.rules, date \in 0..(MaxDays + 1) :
                    i \in QueuedFor(queue, rule, FiringTime(rule, date))

\* two rules were expanded over a window that starts and ends exactly at a
\* firing time, giving a propagator per rule and day
C20_Witness ==
    /\ probe.kind = "expand"
    /\ probe.expanded
    /\ probe.start_datetime = SecondsPerDay + 9 * 3600
    /\ probe.end_datetime = MaxDays * SecondsPerDay + 9 * 3600
    /\ \E r \in probe.rules : r.rule_type = "SWEEP_OUT"
    /\ \E r \in probe.rules : r.rule_type = "TOPUP"
    /\ Len(probe.runner.processing_queue) = 2 * MaxDays

RECURSIVE SumOver(_, _)
\* the sum of f[x] over the x in S
SumOver(f, S) ==
    IF S = {} THEN 0
    ELSE LET x == CHOOSE y \in S : TRUE
         IN  f[x] + SumOver(f, S \ {x})

\* how often propagator q has to be appended for the written rows: once for
\* each written row and each listening point (a, t) of q with a the row's
\* account and the row's effective_time <= t
Wakes(listeners, written, q) ==
    SumOver([e \in DOMAIN written |->
                written[e] * Cardinality({i \in 1..Len(listeners) :
                                            /\ listeners[i][3] = q
                                            /\ listeners[i][1] = e.account_id
                                            /\ e.effective_time <= listeners[i][2]})],
            DOMAIN written)

\* how often q occurs in a sequence
Occurrences(seq, q) == Cardinality({i \in 1..Len(seq) : seq[i] = q})

\* C21: whenever a propagate() call writes an entry on account a with
\* effective_time e, every propagator with a listening point (a, t), e <= t, is
\* appended to the worklist; a propagator without such a listening point is not
\* appended, a call that writes nothing appends nothing, and simulate() returns
\* only when the worklist is empty, so what was appended is run before.
C21_ListenersEnqueued ==
    [][(pc = "simulate" /\ call'.status # HTTP_500) =>
        LET written == NewRows(session.balance_entries, session'.balance_entries)
            queue == runner.processing_queue
            appended == IF pc' = "simulate"
                        THEN SubSeq(runner'.processing_queue, Len(queue),
                                    Len(runner'.processing_queue))
                        ELSE << >>
        IN  /\ \A i \in 1..Len(runner.listeners) :
                    Occurrences(appended, runner.listeners[i][3]) =
                        Wakes(runner.listeners, written, runner.listeners[i][3])
            /\ Len(appended) =
                    SumOver([e \in DOMAIN written |->
                                written[e] * Cardinality(
                                    {i \in 1..Len(runner.listeners) :
                                        /\ runner.listeners[i][1] = e.account_id
                                        /\ e.effective_time <= runner.listeners[i][2]})],
                            DOMAIN written)
            /\ pc' = "simulate" =>
                    SubSeq(runner'.processing_queue, 1, Len(queue) - 1) = Tail(queue)
            /\ pc' = "idle" => Len(queue) = 1]_vars

\* inside simulate() the worklist holds more propagators than the run started
\* with less the ones already run: a listener has been appended
C21_Witness ==
    /\ pc = "simulate"
    /\ steps > 0
    /\ Len(runner.processing_queue) + steps > RunPropagators

\* C22: a resimulation triggered by funding-rule creation or manual-entry
\* creation first purges every entry with a non-null rule_id and only then
\* expands the rules and runs the scheduler: when the call enters simulate(),
\* before the first propagate(), its session holds no derived entry.
C22_PurgeBeforeResimulation ==
    (pc = "simulate" /\ steps = 0
        /\ call.op \in {"create_funding_rule", "create_entry"}) =>
    DOMAIN DerivedEntries(session.balance_entries) = {}

\* what a rule has posted on an account, in a currency, before a time
PostedBefore(ledger, rule_id, account_id, currency, timestamp) ==
    SumAmounts(ledger, {e \in DOMAIN ledger :
                            /\ e.rule_id = rule_id
                            /\ e.account_id = account_id
                            /\ e.currency = currency
                            /\ e.effective_time < timestamp})

\* C23: when a SWEEP_OUT rule swept its source on one day and the source's
\* balance at the rule's firing time on a later day is below the threshold,
\* the later day's firing posts a reversal that returns part of the swept
\* amount to the source.
C23_LaterDayReversal ==
    Called("SweepOut") =>
        LET p == probe.called[1]
        IN  (/\ PostedBefore(probe.before, p.rule_id, p.source_account_id,
                             p.currency, p.timestamp) < 0
             /\ BalanceAsOf(probe.before, p.source_account_id,
                            p.currency, p.timestamp) < p.threshold)
            => WrittenOn(p.source_account_id) > 0

\* the times at which rows of a ledger take effect
EffectiveTimes(ledger) == {e.effective_time : e \in DOMAIN ledger}

\* C24: in every reachable state, for every SWEEP_OUT rule and every firing
\* day, the sum of that rule's entries on its source account at that day's
\* funding timestamp is <= 0, and a SweepOut call never returns to the source
\* more than was previously swept (delta <= -prior).
C24_ReversalBound ==
    probe.rule.rule_type = "SWEEP_OUT" =>
        /\ \A t \in EffectiveTimes(probe.ledger) :
              RulePostingAt(probe.ledger, probe.rule.id,
                            probe.rule.source_account_id,
                            probe.rule.currency, t) <= 0
        /\ Called("SweepOut") =>
              LET p == probe.called[1]
              IN  WrittenOn(p.source_account_id)
                      <= -RulePostingAt(probe.before, p.rule_id,
                                        p.source_account_id, p.currency,
                                        p.funding_timestamp)

\* a SweepOut call that posted a reversal while the source's shortfall below
\* the threshold was larger than what the rule had swept
C24_Witness ==
    /\ Called("SweepOut")
    /\ LET p == probe.called[1]
           prior == RulePostingAt(probe.before, p.rule_id, p.source_account_id,
                                  p.currency, p.funding_timestamp)
       IN  /\ WrittenOn(p.source_account_id) > 0
           /\ p.threshold - BalanceAsOf(probe.before, p.source_account_id,
                                        p.currency, p.timestamp) > -prior

\* C30: in every reachable state, for every TOPUP or BACKUP_FUNDING rule and
\* every firing day, the sum of that rule's entries on its target account at
\* that day's funding timestamp is >= 0: a Topup never withdraws from its
\* target more than it has contributed.
C30_TopupContributionNonNegative ==
    probe.rule.rule_type \in {"TOPUP", "BACKUP_FUNDING"} =>
        /\ \A t \in EffectiveTimes(probe.ledger) :
              RulePostingAt(probe.ledger, probe.rule.id,
                            probe.rule.target_account_id,
                            probe.rule.currency, t) >= 0
        /\ Called("Topup") =>
              LET p == probe.called[1]
              IN  -WrittenOn(p.target_account_id)
                      <= RulePostingAt(probe.before, p.rule_id,
                                       p.target_account_id, p.currency,
                                       p.funding_timestamp)

\* a Topup call that took money back from its target while the target's excess
\* above the threshold was larger than what the rule had contributed
C30_Witness ==
    /\ Called("Topup")
    /\ LET p == probe.called[1]
           prior == RulePostingAt(probe.before, p.rule_id, p.target_account_id,
                                  p.currency, p.funding_timestamp)
       IN  /\ WrittenOn(p.target_account_id) < 0
           /\ BalanceAsOf(probe.before, p.target_account_id,
                          p.currency, p.timestamp) - p.threshold > prior

\* both runs of simulate() have returned
BothReturned ==
    /\ probe.started
    /\ probe.a.runner.processing_queue = << >>
    /\ probe.b.runner.processing_queue = << >>

\* C25: for a fixed starting ledger and a fixed set of expanded propagators,
\* the balances per (account, currency, as_of) at the end of simulate() are
\* the same for every order in which the initial propagators are placed on the
\* worklist (independent of rule insertion order).
C25_WorklistOrderIndependent ==
    BothReturned => SameBalances(probe.a.ledger, probe.b.ledger)

\* the ManualEntry propagators on a worklist
ManualOn(queue) == {i \in 1..Len(queue) : queue[i].kind = "ManualEntry"}

\* C26: a manual-entry creation call inserts exactly one new rule_id = null
\* entry with the given account, amount, currency, description and
\* effective_time, no matter how many rule propagators fire or re-fire during
\* the run: the ManualEntry propagator has no listening points, so it is run
\* once and never re-enqueued.
C26_OneManualEntry ==
    [][/\ (pc = "idle" /\ pc' = "simulate" /\ call'.op = "create_entry") =>
            /\ Cardinality(ManualOn(runner'.processing_queue)) = 1
            /\ \A i \in 1..Len(runner'.listeners) :
                    runner'.listeners[i][3].kind # "ManualEntry"
       /\ (pc = "simulate" /\ call.op = "create_entry"
                /\ call'.status # HTTP_500) =>
            LET p == Head(runner.processing_queue)
                row == BalanceEntry(p.account_id, p.amount, p.currency,
                                    p.description, p.timestamp, Null)
            IN  /\ p.kind = "ManualEntry" =>
                    /\ p.account_id = call.arg
                    /\ ManualEntries(session'.balance_entries)
                            = AddEntry(ManualEntries(session.balance_entries), row)
                    /\ ManualEntries(session'.balance_entries)
                            = AddEntry(ManualEntries(db.balance_entries), row)
                    /\ pc' = "simulate" => ManualOn(runner'.processing_queue) = {}
                /\ p.kind # "ManualEntry" =>
                    /\ ManualEntries(session'.balance_entries)
                            = ManualEntries(session.balance_entries)
                    /\ pc' = "simulate" =>
                            Cardinality(ManualOn(runner'.processing_queue))
                                = Cardinality(ManualOn(runner.processing_queue))
                /\ pc' = "idle" =>
                    /\ call'.status = HTTP_201
                    /\ ManualOn(runner.processing_queue) \in {{}, {1}}
                    /\ SumOver(ManualEntries(db'.balance_entries),
                               DOMAIN ManualEntries(db'.balance_entries))
                         = 1 + SumOver(ManualEntries(db.balance_entries),
                                       DOMAIN ManualEntries(db.balance_entries))
                    /\ \E e \in DOMAIN NewRows(ManualEntries(db.balance_entries),
                                              ManualEntries(db'.balance_entries)) :
                            e.account_id = call.arg /\ e.rule_id = Null]_vars

\* a manual-entry creation call whose run has fired more rule propagators than
\* it started with, the manual entry written, one propagator left to run
C26_Witness ==
    /\ pc = "simulate"
    /\ call.op = "create_entry"
    /\ steps > Len(runner.listeners) + 1
    /\ Len(runner.processing_queue) = 1
    /\ DOMAIN NewRows(ManualEntries(db.balance_entries),
                      ManualEntries(session.balance_entries)) # {}

\* the rows of a ledger in one currency
InCurrency(ledger, currency) ==
    FilterEntries(ledger, {e \in DOMAIN ledger : e.currency = currency})

\* C27: currency isolation: a rule propagator's delta depends only on entries
\* in the rule's own currency and it posts only in that currency, so two
\* ledgers that differ only in entries of another currency produce the same
\* derived entries for the rule.
C27_CurrencyIsolation ==
    CalledRule =>
        LET p == probe.called[1]
        IN  /\ probe.written = propagate(p, InCurrency(probe.before, p.currency))
            /\ \A i \in 1..Len(probe.written) :
                    probe.written[i].currency = p.currency

\* a rule propagator that wrote its pair on a ledger that holds, before its
\* firing time, an entry of another currency on the account it reads
C27_Witness ==
    /\ CalledRule
    /\ probe.written # << >>
    /\ LET p == probe.called[1]
       IN  \E e \in DOMAIN probe.before :
                /\ e.currency # p.currency
                /\ e.effective_time <= p.timestamp
                /\ e.account_id = (IF p.kind = "Topup" THEN p.target_account_id
                                   ELSE p.source_account_id)

\* the propagators a step of simulate() appended to the worklist
AppendedByStep ==
    IF pc' = "simulate"
    THEN SubSeq(runner'.processing_queue, Len(runner.processing_queue),
                Len(runner'.processing_queue))
    ELSE << >>

\* a row matches a listening point of propagator q
MatchesListeningPoint(e, q) ==
    \E i \in 1..Len(listening_points(q)) :
        /\ listening_points(q)[i][1] = e.account_id
        /\ e.effective_time <= listening_points(q)[i][2]

\* the worklist of the open call has grown by a listener that is its last
\* element
LastWasAppended ==
    /\ pc = "simulate"
    /\ steps > 0
    /\ runner.processing_queue # << >>
    /\ Len(runner.processing_queue) + steps > RunPropagators

\* C28: a propagator never re-enqueues itself: for a rule with source # target,
\* no entry written by a Topup or SweepOut propagate() call matches that same
\* propagator's own listening point, so only other propagators are added to
\* the worklist as a result of its output.
C28_NeverReenqueuesItself ==
    [][(pc = "simulate" /\ call'.status # HTTP_500
            /\ Head(runner.processing_queue).kind \in {"Topup", "SweepOut"}) =>
        LET p == Head(runner.processing_queue)
            written == NewRows(session.balance_entries, session'.balance_entries)
        IN  /\ p.source_account_id # p.target_account_id
            /\ \A e \in DOMAIN written : ~MatchesListeningPoint(e, p)
            /\ \A i \in 1..Len(AppendedByStep) : AppendedByStep[i] # p]_vars

\* the last propagator of the worklist is a listener, and the ledger of the run
\* holds a row of another rule that matches its listening point
C28_Witness ==
    /\ LastWasAppended
    /\ LET q == runner.processing_queue[Len(runner.processing_queue)]
       IN  \E e \in DOMAIN NewRows(db.balance_entries, session.balance_entries) :
                /\ e.rule_id # Null
                /\ e.rule_id # q.rule_id
                /\ MatchesListeningPoint(e, q)

\* C29: forward causality: every listener re-enqueued because of entries
\* written by propagator P has a firing time >= P's firing time; entries
\* written by P never cause a propagator with a strictly earlier firing time to
\* run again.
C29_ForwardCausality ==
    [][(pc = "simulate" /\ call'.status # HTTP_500) =>
        LET p == Head(runner.processing_queue)
            written == NewRows(session.balance_entries, session'.balance_entries)
        IN  /\ \A e \in DOMAIN written : e.effective_time >= p.timestamp
            /\ \A i \in 1..Len(AppendedByStep) :
                    AppendedByStep[i].timestamp >= p.timestamp]_vars

\* the last propagator of the worklist is a listener of a later day than a row
\* this run wrote on the account it listens on, while a propagator of an
\* earlier day listens on that account too
C29_Witness ==
    /\ LastWasAppended
    /\ LET q == runner.processing_queue[Len(runner.processing_queue)]
       IN  \E e \in DOMAIN NewRows(db.balance_entries, session.balance_entries) :
                /\ MatchesListeningPoint(e, q)
                /\ DateOf(q.timestamp) > DateOf(e.effective_time)
                /\ \E i \in 1..Len(runner.listeners) :
                        /\ runner.listeners[i][1] = e.account_id
                        /\ runner.listeners[i][2] < e.effective_time

\* C31: if no two funding rules of a simulation share the same time_of_day,
\* simulate() terminates for every window and every set of manual entries: the
\* worklist is empty after at most StepCap iterations.
C31_DistinctTimesTerminate ==
    (probe.started /\ probe.run.steps = StepCap(probe.propagators)) =>
        probe.run.runner.processing_queue = << >>

\* simulate() has returned for two rules with different times of day after
\* more iterations than it had propagators to start with
C31_Witness ==
    /\ probe.started
    /\ Cardinality(probe.rules) = 2
    /\ probe.run.runner.processing_queue = << >>
    /\ probe.run.steps > probe.propagators

\* C32: in the accounts/transactions variant, a create_transaction request
\* that is rejected (non-positive amount, unknown from_account, insufficient
\* funds on from_account, or unknown to_account) changes no account balance and
\* records no transaction; in particular a transfer whose to_account does not
\* exist does not debit the from_account.
\* create_transaction changes nothing before it returns for the first three
\* rejections; for an unknown to_account it returns 404 with the from_account
\* debited in its session, and what is stored then is what session_scope
\* stores.
C32_RejectedTransferChangesNothing ==
    (probe.op = "create_transaction" /\ probe.status # HTTP_201) =>
        /\ probe.store.accounts = probe.before.accounts
        /\ probe.store.transactions = probe.before.transactions

====
